---------------------------- MODULE Spec2Model ----------------------------
(***************************************************************************)
(* A model of the interview pipeline of AI-Interview-Maesterio:            *)
(*   - the interview orchestration views of home/ai_interview_views.py and *)
(*     home/views.py (session registry, status, questions, background      *)
(*     threads),                                                           *)
(*   - the behavioural-data buffer filled by analyze_snapshot,             *)
(*   - the voice interview loop of AIInterviewer (home/ai_interviewer.py). *)
(*   - the units the pipeline is built from (the retrying listener, the    *)
(*     behavioural scores, the score validator, the emotion classifier     *)
(*     and smoother), each run on its own over bounded inputs.             *)
(* Each part has its own specification over its own variables; the other   *)
(* variables keep their initial values under it.                           *)
(***************************************************************************)
EXTENDS Integers, Sequences, FiniteSets, TLC

(***************************************************************************)
(* Bounds of the model.                                                    *)
(***************************************************************************)
MaxQuestions == 2       \* questions generated per interview, all runs together
MaxTasks == 2           \* background threads alive at once
MaxSessions == 2        \* AIInterviewer instances ever registered
NumVoiceQuestions == 2  \* questions generate_questions returns to the voice interview
BufferLimit == 2        \* entries a list keeps: the code keeps 1000 (scaled down)
MaxSnapshots == 4       \* analyze_snapshot requests received
MaxCompletions == 2     \* completion requests accepted per interview
MaxRetries == 3         \* largest max_retries passed to listen_with_retry
MaxStream == 2          \* length of the emotion and posture streams handed to the scores
MaxScoreLines == 5      \* 'Score: N/10' occurrences in a narrative
MaxSmoothCalls == 6     \* calls of smooth_emotion on one detector
MaxEmotionStream == 7   \* length of the emotion streams of the confidence score
MaxPostureStream == 14  \* length of the posture streams of the confidence score

Ids == {1}               \* interview ids (state is keyed by id; one id suffices here)
NoSession == 0

VARIABLES
    \* ---- orchestration (ai_interview_views.py, views.py)
    ai_interviewers,   \* registry: interview id -> serial of the registered instance, NoSession if none
    nextSession,       \* serial of the last AIInterviewer instance registered
    status,            \* Interview.status of each interview
    questions,         \* InterviewQuestion rows of each interview: the sequence of answer_text
    results,           \* number of writes of the interview's InterviewResult
    tasks,             \* background threads: slot -> [kind, id, pc, left]
    resp,              \* the last JsonResponse: its success flag and unanswered count
    nAccepted,         \* history: completion requests accepted, per interview
    nCompleted,        \* history: writes of status 'completed', per interview
    nFailed,           \* history: report runs that ended in the except branch, per interview
    taskFailed,        \* history: a background thread of the interview raised
    wasRejected,       \* history: a completion request of the interview was rejected
    \* ---- one AIInterviewer instance and its voice interview (ai_interviewer.py)
    self_questions,           \* self.questions: the ids of the generated questions
    current_question_index,   \* self.current_question_index (0-based)
    is_interview_active,      \* self.is_interview_active
    interview_paused,         \* self.interview_paused
    stop_requested,           \* self.stop_requested
    interview_history,        \* self.interview_history: sequence of [question, answer]
    loops,                    \* the _voice_interview_loop threads: slot -> [pc, cur, answer]
    ret,                      \* what the last call on the instance returned
    completeFired,            \* history: calls of on_complete_callback
    \* ---- the behavioural data filled by analyze_snapshot (ai_interview_views.py)
    interview_behavioral_data,  \* interview id -> reference of its dict, 0 if none
    dicts,             \* heap of the per-interview dicts: reference -> [key -> list reference]
    lists,             \* heap of the list objects: reference -> sequence
    snap,              \* the analyze_snapshot requests in progress, one per server thread
    clock,             \* datetime.now(), counted in ticks
    nsnap,             \* analyze_snapshot requests received
    appended,          \* history: interview id -> key -> every value appended, in order
    \* ---- units run on their own
    lwr,               \* one call of VoiceInteractionManager.listen_with_retry
    sc,                \* the behavioural scores computed for a pair of streams
    val,               \* one call of AIInterviewer._validate_and_fix_scoring
    emo,               \* one call of EfficientEmotionDetector.classify_emotion_simple
    smo,               \* a detector's emotion_history and its last smooth_emotion call
    pos,               \* one call of MediaPipePostureAnalyzer.analyze
    cap,               \* one call of AIInterviewer.generate_questions or generate_report
    rpt,               \* the scores generate_report_thread persists for a narrative
    reg                \* the registry under start requests and report threads, statement by statement

orchVars == <<ai_interviewers, nextSession, status, questions, results, tasks, resp,
              nAccepted, nCompleted, nFailed, taskFailed, wasRejected>>

voiceVars == <<self_questions, current_question_index, is_interview_active,
               interview_paused, stop_requested, interview_history, loops, ret, completeFired>>

bufVars == <<interview_behavioral_data, dicts, lists, snap, clock, nsnap, appended>>

unitVars == <<lwr, sc, val, emo, smo, pos, cap, rpt, reg>>
\* what a unit leaves alone: everything but its own variable
lwrFrame == <<orchVars, voiceVars, bufVars, sc, val, emo, smo, pos, cap, rpt, reg>>
scFrame == <<orchVars, voiceVars, bufVars, lwr, val, emo, smo, pos, cap, rpt, reg>>
valFrame == <<orchVars, voiceVars, bufVars, lwr, sc, emo, smo, pos, cap, rpt, reg>>
emoFrame == <<orchVars, voiceVars, bufVars, lwr, sc, val, smo, pos, cap, rpt, reg>>
smoFrame == <<orchVars, voiceVars, bufVars, lwr, sc, val, emo, pos, cap, rpt, reg>>
posFrame == <<orchVars, voiceVars, bufVars, lwr, sc, val, emo, smo, cap, rpt, reg>>
capFrame == <<orchVars, voiceVars, bufVars, lwr, sc, val, emo, smo, pos, rpt, reg>>
rptFrame == <<orchVars, voiceVars, bufVars, lwr, sc, val, emo, smo, pos, cap, reg>>
regFrame == <<orchVars, voiceVars, bufVars, lwr, sc, val, emo, smo, pos, cap, rpt>>

vars == <<orchVars, voiceVars, bufVars, unitVars>>

----------------------------------------------------------------------------
(***************************************************************************)
(* Orchestration                                                           *)
(***************************************************************************)
NoTask == [kind |-> "none", id |-> 0, pc |-> "none", left |-> 0]
NoResp == [ok |-> FALSE, n |-> 0]

Slots == 1..MaxTasks
FreeSlots == {t \in Slots : tasks[t].kind = "none"}
\* threading.Thread(...).start(): the new thread takes the lowest free slot
Spawn(task) == [tasks EXCEPT ![CHOOSE t \in FreeSlots : \A u \in FreeSlots : t <= u] = task]

LiveTasks(i) == {t \in Slots : tasks[t].kind # "none" /\ tasks[t].id = i}
LiveReports(i) == {t \in Slots : tasks[t].kind = "report" /\ tasks[t].id = i}

RECURSIVE SumLeft(_)
SumLeft(S) == IF S = {} THEN 0
              ELSE LET t == CHOOSE u \in S : TRUE IN tasks[t].left + SumLeft(S \ {t})
\* how many more questions the generation runs of interview i may still return
QuestionsLeft(i) == MaxQuestions - Len(questions[i]) - SumLeft(LiveTasks(i))

RECURSIVE CountEmpty(_)
CountEmpty(qs) == IF qs = <<>> THEN 0
                  ELSE (IF Head(qs) = "" THEN 1 ELSE 0) + CountEmpty(Tail(qs))

\* questions.count() in place of the filtered count: every question is counted
UnansweredCount_AllQuestions(qs) == Len(qs)

\* questions.filter(answer_text='').count()
UnansweredCount(qs) == CountEmpty(qs)

InitOrch ==
    /\ ai_interviewers = [i \in Ids |-> NoSession]
    /\ nextSession = 0
    /\ status = [i \in Ids |-> "scheduled"]
    /\ questions = [i \in Ids |-> <<>>]
    /\ results = [i \in Ids |-> 0]
    /\ tasks = [t \in Slots |-> NoTask]
    /\ resp = NoResp
    /\ nAccepted = [i \in Ids |-> 0]
    /\ nCompleted = [i \in Ids |-> 0]
    /\ nFailed = [i \in Ids |-> 0]
    /\ taskFailed = [i \in Ids |-> FALSE]
    /\ wasRejected = [i \in Ids |-> FALSE]

\* ai_interview_start: registers a fresh AIInterviewer, loads the files, starts the
\* question thread and sets the status. loadOk = FALSE: reading a file raised.
ai_interview_start(i, loadOk) ==
    /\ nextSession < MaxSessions
    /\ loadOk => FreeSlots # {}
    /\ nextSession' = nextSession + 1
    /\ ai_interviewers' = [ai_interviewers EXCEPT ![i] = nextSession + 1]
    /\ IF loadOk
       THEN /\ tasks' = Spawn([kind |-> "qgen", id |-> i, pc |-> "gen", left |-> 0])
            /\ status' = [status EXCEPT ![i] = "in_progress"]
            /\ resp' = [ok |-> TRUE, n |-> 0]
       ELSE /\ UNCHANGED <<tasks, status>>
            /\ resp' = [ok |-> FALSE, n |-> 0]
    /\ UNCHANGED <<questions, results, nAccepted, nCompleted, nFailed,
                   taskFailed, wasRejected>>

\* generate_questions_thread, ai_interviewer.generate_questions(): the list comes back
\* (n questions), or the call raises and the thread logs the error and ends.
qgen_generate(t, n, ok) ==
    /\ tasks[t].kind = "qgen" /\ tasks[t].pc = "gen"
    /\ n <= QuestionsLeft(tasks[t].id)
    /\ IF ok /\ n > 0
       THEN /\ tasks' = [tasks EXCEPT ![t] = [@ EXCEPT !.pc = "persist", !.left = n]]
            /\ UNCHANGED taskFailed
       ELSE /\ tasks' = [tasks EXCEPT ![t] = NoTask]
            /\ taskFailed' = [taskFailed EXCEPT ![tasks[t].id] = @ \/ ~ok]
    /\ UNCHANGED <<ai_interviewers, nextSession, status, questions, results, resp,
                   nAccepted, nCompleted, nFailed, wasRejected>>

\* generate_questions_thread, one turn of "for q in questions: InterviewQuestion.objects.create":
\* the row is stored with an empty answer_text, or q['question'] / the insert raises.
qgen_persist(t, ok) ==
    /\ tasks[t].kind = "qgen" /\ tasks[t].pc = "persist"
    /\ IF ok
       THEN /\ questions' = [questions EXCEPT ![tasks[t].id] = Append(@, "")]
            /\ tasks' = [tasks EXCEPT ![t] = IF @.left = 1 THEN NoTask
                                             ELSE [@ EXCEPT !.left = @ - 1]]
            /\ UNCHANGED taskFailed
       ELSE /\ tasks' = [tasks EXCEPT ![t] = NoTask]
            /\ taskFailed' = [taskFailed EXCEPT ![tasks[t].id] = TRUE]
            /\ UNCHANGED questions
    /\ UNCHANGED <<ai_interviewers, nextSession, status, results, resp,
                   nAccepted, nCompleted, nFailed, wasRejected>>

\* ai_interview_answer: stores the posted answer (data.get('answer', '') may be empty)
ai_interview_answer(i, q, a) ==
    /\ q \in 1..Len(questions[i])
    /\ questions' = [questions EXCEPT ![i][q] = a]
    /\ resp' = [ok |-> TRUE, n |-> 0]
    /\ UNCHANGED <<ai_interviewers, nextSession, status, results, tasks,
                   nAccepted, nCompleted, nFailed, taskFailed, wasRejected>>

\* ai_interview_complete: rejected with the count while a question is unanswered;
\* otherwise the report thread is started and the request acknowledged.
ai_interview_complete(i) ==
    /\ IF UnansweredCount(questions[i]) > 0
       THEN /\ resp' = [ok |-> FALSE,
                        n |-> UnansweredCount(questions[i])]
            /\ wasRejected' = [wasRejected EXCEPT ![i] = TRUE]
            /\ UNCHANGED <<tasks, nAccepted>>
       ELSE /\ FreeSlots # {}
            /\ nAccepted[i] < MaxCompletions
            /\ tasks' = Spawn([kind |-> "report", id |-> i, pc |-> "report", left |-> 0])
            /\ resp' = [ok |-> TRUE, n |-> 0]
            /\ nAccepted' = [nAccepted EXCEPT ![i] = @ + 1]
            /\ UNCHANGED wasRejected
    /\ UNCHANGED <<ai_interviewers, nextSession, status, questions, results,
                   nCompleted, nFailed, taskFailed>>

\* generate_report_thread up to InterviewResult.objects.update_or_create and the
\* result.save() calls: the result is written, or a call raised (except branch).
report_generate(t, ok) ==
    /\ tasks[t].kind = "report" /\ tasks[t].pc = "report"
    /\ IF ok
       THEN /\ results' = [results EXCEPT ![tasks[t].id] = @ + 1]
            /\ tasks' = [tasks EXCEPT ![t].pc = "status"]
            /\ UNCHANGED <<nFailed, taskFailed>>
       ELSE /\ tasks' = [tasks EXCEPT ![t].pc = "cleanup"]
            /\ nFailed' = [nFailed EXCEPT ![tasks[t].id] = @ + 1]
            /\ taskFailed' = [taskFailed EXCEPT ![tasks[t].id] = TRUE]
            /\ UNCHANGED results
    /\ UNCHANGED <<ai_interviewers, nextSession, status, questions, resp,
                   nAccepted, nCompleted, wasRejected>>

\* generate_report_thread: interview.status = 'completed'; interview.save()
report_status(t) ==
    /\ tasks[t].kind = "report" /\ tasks[t].pc = "status"
    /\ status' = [status EXCEPT ![tasks[t].id] = "completed"]
    /\ nCompleted' = [nCompleted EXCEPT ![tasks[t].id] = @ + 1]
    /\ tasks' = [tasks EXCEPT ![t].pc = "cleanup"]
    /\ UNCHANGED <<ai_interviewers, nextSession, questions, results, resp,
                   nAccepted, nFailed, taskFailed, wasRejected>>

\* generate_report_thread, finally: the registry entry of the interview id is deleted
report_cleanup(t) ==
    /\ tasks[t].kind = "report" /\ tasks[t].pc = "cleanup"
    /\ ai_interviewers' = [ai_interviewers EXCEPT ![tasks[t].id] = NoSession]
    /\ tasks' = [tasks EXCEPT ![t] = NoTask]
    /\ UNCHANGED <<nextSession, status, questions, results, resp,
                   nAccepted, nCompleted, nFailed, taskFailed, wasRejected>>

\* views.complete_interview: the synchronous completion endpoint. force: the
\* request carries ?force; ok = FALSE: the try block raised (status 500).
complete_interview(i, force, ok) ==
    /\ IF UnansweredCount(questions[i]) > 0 /\ ~force
       THEN /\ resp' = [ok |-> FALSE,
                        n |-> UnansweredCount(questions[i])]
            /\ wasRejected' = [wasRejected EXCEPT ![i] = TRUE]
            /\ UNCHANGED <<results, status, nCompleted, nAccepted, nFailed>>
       ELSE /\ nAccepted[i] < MaxCompletions
            /\ nAccepted' = [nAccepted EXCEPT ![i] = @ + 1]
            /\ UNCHANGED wasRejected
            /\ IF ok
               THEN /\ results' = [results EXCEPT ![i] = @ + 1]
                    /\ status' = [status EXCEPT ![i] = "completed"]
                    /\ nCompleted' = [nCompleted EXCEPT ![i] = @ + 1]
                    /\ resp' = [ok |-> TRUE, n |-> 0]
                    /\ UNCHANGED nFailed
               ELSE /\ nFailed' = [nFailed EXCEPT ![i] = @ + 1]
                    /\ resp' = [ok |-> FALSE, n |-> 0]
                    /\ UNCHANGED <<results, status, nCompleted>>
    /\ UNCHANGED <<ai_interviewers, nextSession, questions, tasks, taskFailed>>

\* start_voice_interview (the view): registers an instance when none is registered;
\* VoiceInteractionManager is not imported by ai_interview_views.py, so line 811
\* raises NameError, which the except branch turns into a failure response before
\* the status is set or the interview thread is started.
start_voice_interview_view(i) ==
    /\ IF ai_interviewers[i] = NoSession
       THEN /\ nextSession < MaxSessions
            /\ nextSession' = nextSession + 1
            /\ ai_interviewers' = [ai_interviewers EXCEPT ![i] = nextSession + 1]
       ELSE UNCHANGED <<ai_interviewers, nextSession>>
    /\ resp' = [ok |-> FALSE, n |-> 0]
    /\ UNCHANGED <<status, questions, results, tasks, nAccepted, nCompleted,
                   nFailed, taskFailed, wasRejected>>

\* stop_voice_interview: without a registered session the request fails; with one
\* it calls stop_interview on the session, which returns False because no view
\* ever brings a registered session to is_interview_active.  Either way the
\* answer is a failure and the registry keeps what it had.
stop_voice_interview_view(i) ==
    /\ resp' = [ok |-> FALSE, n |-> 0]
    /\ UNCHANGED <<ai_interviewers, nextSession, status, questions, results, tasks,
                   nAccepted, nCompleted, nFailed, taskFailed, wasRejected>>

----------------------------------------------------------------------------
(***************************************************************************)
(* The voice interview of one AIInterviewer instance.  Every "with         *)
(* self.thread_lock" block is one step; what runs outside the lock (the    *)
(* while condition, speaking and listening, the append to the history) is  *)
(* a step of its own.                                                      *)
(***************************************************************************)
NoLoop == [pc |-> "none", cur |-> 0, answer |-> "none"]
\* what listen_with_retry returns: a text the loop stores and never inspects
Answers == {"ans"}
\* the loop threads one instance is given: start_voice_interview may be called twice
LoopSlots == {1, 2}
FreeLoops == {t \in LoopSlots : loops[t].pc = "none"}
LiveLoops == {t \in LoopSlots : loops[t].pc \notin {"none", "done"}}

InitVoice ==
    /\ self_questions = <<>>
    /\ current_question_index = 0
    /\ is_interview_active = FALSE
    /\ interview_paused = FALSE
    /\ stop_requested = FALSE
    /\ interview_history = <<>>
    /\ loops = [t \in LoopSlots |-> NoLoop]
    /\ ret = FALSE
    /\ completeFired = 0

\* AIInterviewer.start_voice_interview: generates the questions when there are none
\* (genOk = FALSE: generation raised, the call returns False), resets the interview
\* state and starts a _voice_interview_loop thread.
start_voice_interview(genOk) ==
    /\ FreeLoops # {}
    /\ IF self_questions = <<>> /\ ~genOk
       THEN /\ ret' = FALSE
            /\ UNCHANGED <<self_questions, current_question_index, is_interview_active,
                           interview_paused, stop_requested, loops>>
       ELSE /\ self_questions' = IF self_questions = <<>>
                                 THEN [k \in 1..NumVoiceQuestions |-> k]
                                 ELSE self_questions
            /\ is_interview_active' = TRUE
            /\ interview_paused' = FALSE
            /\ stop_requested' = FALSE
            /\ current_question_index' = 0
            /\ loops' = [loops EXCEPT ![CHOOSE t \in FreeLoops : \A u \in FreeLoops : t <= u]
                                          = [pc |-> "while", cur |-> 0, answer |-> "none"]]
            /\ ret' = TRUE
    /\ UNCHANGED <<interview_history, completeFired>>

\* _voice_interview_loop: the while condition, read without the lock
loop_while(t) ==
    /\ loops[t].pc = "while"
    /\ loops' = [loops EXCEPT ![t].pc =
                    IF is_interview_active /\ current_question_index < Len(self_questions)
                    THEN "check" ELSE "finish"]
    /\ UNCHANGED <<self_questions, current_question_index, is_interview_active,
                   interview_paused, stop_requested, interview_history, ret, completeFired>>

\* the checkpoint without its stop_requested test: the loop goes on asking
loop_check_IgnoresStop(t) ==
    /\ loops[t].pc = "check"
    /\ IF interview_paused
       THEN loops' = [loops EXCEPT ![t].pc = "while"] /\ UNCHANGED is_interview_active
       ELSE IF current_question_index < Len(self_questions)
       THEN /\ loops' = [loops EXCEPT ![t] =
                            [@ EXCEPT !.pc = "ask",
                                      !.cur = self_questions[current_question_index + 1]]]
            /\ UNCHANGED is_interview_active
       ELSE /\ loops' = [loops EXCEPT ![t] = [pc |-> "done", cur |-> 0, answer |-> "none"]]
            /\ is_interview_active' = FALSE
    /\ UNCHANGED <<self_questions, current_question_index, interview_paused,
                   stop_requested, interview_history, ret, completeFired>>

\* _voice_interview_loop: the checkpoint at the top of the iteration (under the lock):
\* break when stopped, poll again when paused, else take the current question.
\* The index may have moved past the end since the while condition was read: then
\* self.questions[...] raises IndexError and the except branch ends the loop
\* (is_interview_active = False, on_error_callback).
loop_check(t) ==
    /\ loops[t].pc = "check"
    /\ IF stop_requested
       THEN loops' = [loops EXCEPT ![t].pc = "finish"] /\ UNCHANGED is_interview_active
       ELSE IF interview_paused
       THEN loops' = [loops EXCEPT ![t].pc = "while"] /\ UNCHANGED is_interview_active
       ELSE IF current_question_index < Len(self_questions)
       THEN /\ loops' = [loops EXCEPT ![t] =
                            [@ EXCEPT !.pc = "ask",
                                      !.cur = self_questions[current_question_index + 1]]]
            /\ UNCHANGED is_interview_active
       ELSE /\ loops' = [loops EXCEPT ![t] = [pc |-> "done", cur |-> 0, answer |-> "none"]]
            /\ is_interview_active' = FALSE
    /\ UNCHANGED <<self_questions, current_question_index, interview_paused,
                   stop_requested, interview_history, ret, completeFired>>

\* _voice_interview_loop: on_question_callback and voice_manager.speak(question_text)
loop_ask(t) ==
    /\ loops[t].pc = "ask"
    /\ loops' = [loops EXCEPT ![t].pc = "listen"]
    /\ UNCHANGED <<self_questions, current_question_index, is_interview_active,
                   interview_paused, stop_requested, interview_history, ret,
                   completeFired>>

\* _voice_interview_loop: answer = voice_manager.listen_with_retry(max_retries=3)
loop_listen(t, a) ==
    /\ loops[t].pc = "listen"
    /\ loops' = [loops EXCEPT ![t] = [@ EXCEPT !.pc = "postcheck", !.answer = a]]
    /\ UNCHANGED <<self_questions, current_question_index, is_interview_active,
                   interview_paused, stop_requested, interview_history, ret, completeFired>>

\* _voice_interview_loop: "if self.stop_requested: break" after listening (under the lock)
loop_postcheck(t) ==
    /\ loops[t].pc = "postcheck"
    /\ loops' = [loops EXCEPT ![t].pc = IF stop_requested THEN "finish" ELSE "record"]
    /\ UNCHANGED <<self_questions, current_question_index, is_interview_active,
                   interview_paused, stop_requested, interview_history, ret, completeFired>>

\* _voice_interview_loop: on_answer_callback and interview_history.append
loop_record(t) ==
    /\ loops[t].pc = "record"
    /\ interview_history' = Append(interview_history,
                                   [question |-> loops[t].cur, answer |-> loops[t].answer])
    /\ loops' = [loops EXCEPT ![t].pc = "inc"]
    /\ UNCHANGED <<self_questions, current_question_index, is_interview_active,
                   interview_paused, stop_requested, ret, completeFired>>

\* _voice_interview_loop: self.current_question_index += 1 (under the lock)
loop_inc(t) ==
    /\ loops[t].pc = "inc"
    /\ current_question_index' = current_question_index + 1
    /\ loops' = [loops EXCEPT ![t].pc = "while"]
    /\ UNCHANGED <<self_questions, is_interview_active, interview_paused,
                   stop_requested, interview_history, ret, completeFired>>

\* the end of the loop without on_complete_callback
loop_finish_WithoutCallback(t) ==
    /\ loops[t].pc = "finish"
    /\ is_interview_active' = FALSE
    /\ loops' = [loops EXCEPT ![t] = [pc |-> "done", cur |-> 0, answer |-> "none"]]
    /\ UNCHANGED <<self_questions, current_question_index, interview_paused,
                   stop_requested, interview_history, ret, completeFired>>

\* _voice_interview_loop: after the loop (under the lock): the completion message
\* and on_complete_callback when every question was gone through and no stop was
\* requested; is_interview_active = False
loop_finish(t) ==
    /\ loops[t].pc = "finish"
    /\ completeFired' = IF current_question_index >= Len(self_questions) /\ ~stop_requested
                        THEN completeFired + 1 ELSE completeFired
    /\ is_interview_active' = FALSE
    /\ loops' = [loops EXCEPT ![t] = [pc |-> "done", cur |-> 0, answer |-> "none"]]
    /\ UNCHANGED <<self_questions, current_question_index, interview_paused,
                   stop_requested, interview_history, ret>>

\* pause_interview without its test of is_interview_active
pause_interview_WhenInactive ==
    /\ IF ~interview_paused
       THEN interview_paused' = TRUE /\ ret' = TRUE
       ELSE UNCHANGED interview_paused /\ ret' = FALSE
    /\ UNCHANGED <<self_questions, current_question_index, is_interview_active,
                   stop_requested, interview_history, loops, completeFired>>

\* AIInterviewer.pause_interview
pause_interview ==
    /\ IF is_interview_active /\ ~interview_paused
       THEN interview_paused' = TRUE /\ ret' = TRUE
       ELSE UNCHANGED interview_paused /\ ret' = FALSE
    /\ UNCHANGED <<self_questions, current_question_index, is_interview_active,
                   stop_requested, interview_history, loops, completeFired>>

\* AIInterviewer.resume_interview
resume_interview ==
    /\ IF is_interview_active /\ interview_paused
       THEN interview_paused' = FALSE /\ ret' = TRUE
       ELSE UNCHANGED interview_paused /\ ret' = FALSE
    /\ UNCHANGED <<self_questions, current_question_index, is_interview_active,
                   stop_requested, interview_history, loops, completeFired>>

\* AIInterviewer.stop_interview
stop_interview ==
    /\ IF is_interview_active
       THEN /\ stop_requested' = TRUE
            /\ is_interview_active' = FALSE
            /\ interview_paused' = FALSE
            /\ ret' = TRUE
       ELSE /\ UNCHANGED <<stop_requested, is_interview_active, interview_paused>>
            /\ ret' = FALSE
    /\ UNCHANGED <<self_questions, current_question_index, interview_history, loops,
                   completeFired>>

\* AIInterviewer.get_next_question: returns the question at the index and moves the
\* index on; None (ret FALSE) when there is none left
get_next_question ==
    /\ IF self_questions = <<>> \/ current_question_index >= Len(self_questions)
       THEN /\ ret' = FALSE
            /\ UNCHANGED current_question_index
       ELSE /\ ret' = TRUE
            /\ current_question_index' = current_question_index + 1
    /\ UNCHANGED <<self_questions, is_interview_active, interview_paused, stop_requested,
                   interview_history, loops, completeFired>>

LoopStep(t) ==
    \/ loop_while(t)
    \/ loop_check(t)
    \/ loop_ask(t)
    \/ \E a \in Answers : loop_listen(t, a)
    \/ loop_postcheck(t)
    \/ loop_record(t)
    \/ loop_inc(t)
    \/ loop_finish(t)

NextVoice ==
    \/ \E genOk \in BOOLEAN : start_voice_interview(genOk) /\ UNCHANGED <<orchVars, bufVars, unitVars>>
    \/ \E t \in LoopSlots : loop_while(t) /\ UNCHANGED <<orchVars, bufVars, unitVars>>
    \/ \E t \in LoopSlots : loop_check(t) /\ UNCHANGED <<orchVars, bufVars, unitVars>>
    \/ \E t \in LoopSlots : loop_ask(t) /\ UNCHANGED <<orchVars, bufVars, unitVars>>
    \/ \E t \in LoopSlots, a \in Answers : loop_listen(t, a) /\ UNCHANGED <<orchVars, bufVars, unitVars>>
    \/ \E t \in LoopSlots : loop_postcheck(t) /\ UNCHANGED <<orchVars, bufVars, unitVars>>
    \/ \E t \in LoopSlots : loop_record(t) /\ UNCHANGED <<orchVars, bufVars, unitVars>>
    \/ \E t \in LoopSlots : loop_inc(t) /\ UNCHANGED <<orchVars, bufVars, unitVars>>
    \/ \E t \in LoopSlots : loop_finish(t) /\ UNCHANGED <<orchVars, bufVars, unitVars>>
    \/ pause_interview /\ UNCHANGED <<orchVars, bufVars, unitVars>>
    \/ resume_interview /\ UNCHANGED <<orchVars, bufVars, unitVars>>
    \/ stop_interview /\ UNCHANGED <<orchVars, bufVars, unitVars>>
    \/ get_next_question /\ UNCHANGED <<orchVars, bufVars, unitVars>>

\* One interview at a time, driven by pause and resume only: no stop, no
\* get_next_question, and start_voice_interview only when no loop is running
NextUnstopped ==
    \/ \E genOk \in BOOLEAN :
           LiveLoops = {} /\ start_voice_interview(genOk)
                          /\ UNCHANGED <<orchVars, bufVars, unitVars>>
    \/ \E t \in LoopSlots : LoopStep(t) /\ UNCHANGED <<orchVars, bufVars, unitVars>>
    \/ pause_interview /\ UNCHANGED <<orchVars, bufVars, unitVars>>
    \/ resume_interview /\ UNCHANGED <<orchVars, bufVars, unitVars>>

----------------------------------------------------------------------------
(***************************************************************************)
(* analyze_snapshot and the behavioural data.  interview_behavioral_data   *)
(* maps an interview id to a dict of three lists; dicts and lists are      *)
(* objects on a heap, so that a request can hold a reference to a dict or  *)
(* a list that another request has replaced in the meantime.  A request    *)
(* runs on a server thread; a thread switch can fall between any two of    *)
(* the steps below.                                                        *)
(***************************************************************************)
BufIds == {1, 2}
Threads == {1, 2}
KeySeq == <<"emotions", "postures", "timestamps">>
Keys == {"emotions", "postures", "timestamps"}
\* what the emotion analysis yields: None when disabled, 'No Face', or a label
EmotionResults == {"None", "No Face", "Happy"}
\* what the posture analysis yields: None when disabled, 'No Person', or a label
PostureResults == {"None", "No Person", "Attentive"}

Idle == [pc |-> "idle", id |-> 0, emotion |-> "None", posture |-> "None",
         k |-> 0, d |-> 0, l |-> 0, new |-> 0]

InitBuf ==
    /\ interview_behavioral_data = [i \in BufIds |-> 0]
    /\ dicts = <<>>
    /\ lists = <<>>
    /\ snap = [t \in Threads |-> Idle]
    /\ clock = 0
    /\ nsnap = 0
    /\ appended = [i \in BufIds |-> [key \in Keys |-> <<>>]]

\* [:1000] in place of [-1000:]: the first entries are kept
LastEntries_KeepFirst(list) ==
    IF Len(list) <= BufferLimit THEN list ELSE SubSeq(list, 1, BufferLimit)

\* list[-1000:]: the last BufferLimit entries
LastEntries(list) ==
    IF Len(list) <= BufferLimit THEN list
    ELSE SubSeq(list, Len(list) - BufferLimit + 1, Len(list))

\* whether the request appends to the list of key number k
\* the appends without the tests against 'No Face' and 'No Person'
AppendsTo_EveryResult(r, k) ==
    CASE k = 1 -> r.emotion # "None"
      [] k = 2 -> r.posture # "None"
      [] OTHER -> TRUE

\* "if emotion and emotion != 'No Face'", "if posture and posture != 'No Person'";
\* the timestamp is appended always
AppendsTo(r, k) ==
    CASE k = 1 -> r.emotion \notin {"None", "No Face"}
      [] k = 2 -> r.posture \notin {"None", "No Person"}
      [] OTHER -> TRUE

\* the phase a request enters for key number k of the append part (k = 4: the
\* appends are over and the "for key in [...]" loop starts)
AppendPhase(r, k) ==
    IF k = 4 THEN [r EXCEPT !.pc = "chk", !.k = 1]
    ELSE IF AppendsTo(r, k) THEN [r EXCEPT !.pc = "lookup", !.k = k]
    ELSE IF k = 3 THEN [r EXCEPT !.pc = "chk", !.k = 1]
    ELSE IF AppendsTo(r, k + 1) THEN [r EXCEPT !.pc = "lookup", !.k = k + 1]
    ELSE [r EXCEPT !.pc = "lookup", !.k = 3]

\* the phase after key number k of the "for key in [...]" loop
TrimPhase(r, k) ==
    IF k = 3 THEN Idle ELSE [r EXCEPT !.pc = "chk", !.k = k + 1, !.d = 0, !.l = 0, !.new = 0]

\* analyze_snapshot up to "if interview_id and (emotion or posture)": the request is
\* read and the frame analysed; id = 0 stands for a request without interview_id
snap_begin(t, id, e, p) ==
    /\ snap[t].pc = "idle"
    /\ nsnap < MaxSnapshots
    /\ nsnap' = nsnap + 1
    /\ snap' = [snap EXCEPT ![t] =
                   IF id # 0 /\ (e # "None" \/ p # "None")
                   THEN [Idle EXCEPT !.pc = "init", !.id = id, !.emotion = e, !.posture = p]
                   ELSE Idle]
    /\ UNCHANGED <<interview_behavioral_data, dicts, lists, clock, appended>>

\* "if interview_id not in interview_behavioral_data"
snap_init(t) ==
    /\ snap[t].pc = "init"
    /\ snap' = [snap EXCEPT ![t] =
                   IF interview_behavioral_data[snap[t].id] = 0
                   THEN [@ EXCEPT !.pc = "create"]
                   ELSE AppendPhase(@, 1)]
    /\ UNCHANGED <<interview_behavioral_data, dicts, lists, clock, nsnap, appended>>

\* the new dict stored under every interview id instead of interview_id alone
snap_create_OneDictForAll(t) ==
    /\ snap[t].pc = "create"
    /\ lists' = lists \o <<<<>>, <<>>, <<>>>>
    /\ dicts' = Append(dicts, [emotions |-> Len(lists) + 1, postures |-> Len(lists) + 2,
                               timestamps |-> Len(lists) + 3])
    /\ interview_behavioral_data' = [i \in BufIds |-> Len(dicts) + 1]
    /\ snap' = [snap EXCEPT ![t] = AppendPhase(@, 1)]
    /\ UNCHANGED <<clock, nsnap, appended>>

\* interview_behavioral_data[interview_id] = {'emotions': [], 'postures': [], 'timestamps': []}
snap_create(t) ==
    /\ snap[t].pc = "create"
    /\ lists' = lists \o <<<<>>, <<>>, <<>>>>
    /\ dicts' = Append(dicts, [emotions |-> Len(lists) + 1, postures |-> Len(lists) + 2,
                               timestamps |-> Len(lists) + 3])
    /\ interview_behavioral_data' =
           [interview_behavioral_data EXCEPT ![snap[t].id] = Len(dicts) + 1]
    /\ snap' = [snap EXCEPT ![t] = AppendPhase(@, 1)]
    /\ UNCHANGED <<clock, nsnap, appended>>

\* interview_behavioral_data[interview_id][key], evaluated before .append is called
snap_lookup(t) ==
    /\ snap[t].pc = "lookup"
    /\ LET d == interview_behavioral_data[snap[t].id] IN
         snap' = [snap EXCEPT ![t] = [@ EXCEPT !.pc = "append", !.d = d,
                                               !.l = dicts[d][KeySeq[snap[t].k]]]]
    /\ UNCHANGED <<interview_behavioral_data, dicts, lists, clock, nsnap, appended>>

\* .append(emotion), .append(posture), .append(datetime.now().isoformat())
snap_append(t) ==
    /\ snap[t].pc = "append"
    /\ LET r == snap[t]
           v == CASE r.k = 1 -> r.emotion [] r.k = 2 -> r.posture [] OTHER -> clock + 1
       IN /\ lists' = [lists EXCEPT ![r.l] = Append(@, v)]
          /\ appended' = [appended EXCEPT ![r.id][KeySeq[r.k]] = Append(@, v)]
          /\ clock' = IF r.k = 3 THEN clock + 1 ELSE clock
          /\ snap' = [snap EXCEPT ![t] = AppendPhase([r EXCEPT !.d = 0, !.l = 0], r.k + 1)]
    /\ UNCHANGED <<interview_behavioral_data, dicts, nsnap>>

\* "if len(interview_behavioral_data[interview_id][key]) > 1000"
snap_check(t) ==
    /\ snap[t].pc = "chk"
    /\ LET r == snap[t]
           l == dicts[interview_behavioral_data[r.id]][KeySeq[r.k]]
       IN snap' = [snap EXCEPT ![t] = IF Len(lists[l]) > BufferLimit
                                      THEN [r EXCEPT !.pc = "rhs"]
                                      ELSE TrimPhase(r, r.k)]
    /\ UNCHANGED <<interview_behavioral_data, dicts, lists, clock, nsnap, appended>>

\* the right-hand side interview_behavioral_data[interview_id][key], before the slice
snap_rhs(t) ==
    /\ snap[t].pc = "rhs"
    /\ snap' = [snap EXCEPT ![t] =
                   [@ EXCEPT !.pc = "slice",
                             !.l = dicts[interview_behavioral_data[snap[t].id]]
                                        [KeySeq[snap[t].k]]]]
    /\ UNCHANGED <<interview_behavioral_data, dicts, lists, clock, nsnap, appended>>

\* [-1000:] makes a new list of the last entries
snap_slice(t) ==
    /\ snap[t].pc = "slice"
    /\ lists' = Append(lists, LastEntries(lists[snap[t].l]))
    /\ snap' = [snap EXCEPT ![t] = [@ EXCEPT !.pc = "lhs", !.l = 0, !.new = Len(lists) + 1]]
    /\ UNCHANGED <<interview_behavioral_data, dicts, clock, nsnap, appended>>

\* the assignment target interview_behavioral_data[interview_id], evaluated after the slice
snap_lhs(t) ==
    /\ snap[t].pc = "lhs"
    /\ snap' = [snap EXCEPT ![t] = [@ EXCEPT !.pc = "store",
                                             !.d = interview_behavioral_data[snap[t].id]]]
    /\ UNCHANGED <<interview_behavioral_data, dicts, lists, clock, nsnap, appended>>

\* ...[key] = <the new list>
snap_store(t) ==
    /\ snap[t].pc = "store"
    /\ dicts' = [dicts EXCEPT ![snap[t].d][KeySeq[snap[t].k]] = snap[t].new]
    /\ snap' = [snap EXCEPT ![t] = TrimPhase(@, @.k)]
    /\ UNCHANGED <<interview_behavioral_data, lists, clock, nsnap, appended>>

SnapStep(t) ==
    \/ snap_init(t) \/ snap_create(t) \/ snap_lookup(t) \/ snap_append(t)
    \/ snap_check(t) \/ snap_rhs(t) \/ snap_slice(t) \/ snap_lhs(t) \/ snap_store(t)

AllIdle == \A t \in Threads : snap[t].pc = "idle"

\* the list interview id i currently holds under key
CurrentList(i, key) ==
    IF interview_behavioral_data[i] = 0 THEN <<>>
    ELSE lists[dicts[interview_behavioral_data[i]][key]]

\* Concurrent requests for one interview: the server runs every request on a thread
\* of its own (the requests here are sent with enable_posture = false)
NextBuf ==
    \/ \E t \in Threads, e \in {"No Face", "Happy"} :
           snap_begin(t, 1, e, "None") /\ UNCHANGED <<orchVars, voiceVars, unitVars>>
    \/ \E t \in Threads : snap_init(t) /\ UNCHANGED <<orchVars, voiceVars, unitVars>>
    \/ \E t \in Threads : snap_create(t) /\ UNCHANGED <<orchVars, voiceVars, unitVars>>
    \/ \E t \in Threads : snap_lookup(t) /\ UNCHANGED <<orchVars, voiceVars, unitVars>>
    \/ \E t \in Threads : snap_append(t) /\ UNCHANGED <<orchVars, voiceVars, unitVars>>
    \/ \E t \in Threads : snap_check(t) /\ UNCHANGED <<orchVars, voiceVars, unitVars>>
    \/ \E t \in Threads : snap_rhs(t) /\ UNCHANGED <<orchVars, voiceVars, unitVars>>
    \/ \E t \in Threads : snap_slice(t) /\ UNCHANGED <<orchVars, voiceVars, unitVars>>
    \/ \E t \in Threads : snap_lhs(t) /\ UNCHANGED <<orchVars, voiceVars, unitVars>>
    \/ \E t \in Threads : snap_store(t) /\ UNCHANGED <<orchVars, voiceVars, unitVars>>

\* Concurrent requests for two interviews, one thread serving each: a request
\* carries the id of its interview or none, and has the emotion analysis enabled
\* or both analyses disabled
NextInterviews ==
    \/ \E t \in Threads, withId \in BOOLEAN, e \in {"None", "Happy"} :
           snap_begin(t, IF withId THEN t ELSE 0, e, "None") /\ UNCHANGED <<orchVars, voiceVars, unitVars>>
    \/ \E t \in Threads : SnapStep(t) /\ UNCHANGED <<orchVars, voiceVars, unitVars>>

\* Sequential requests: a request is received only after the previous one returned
NextSeq ==
    \/ \E id \in BufIds \cup {0}, e \in EmotionResults, p \in PostureResults :
           AllIdle /\ snap_begin(1, id, e, p) /\ UNCHANGED <<orchVars, voiceVars, unitVars>>
    \/ snap_init(1) /\ UNCHANGED <<orchVars, voiceVars, unitVars>>
    \/ snap_create(1) /\ UNCHANGED <<orchVars, voiceVars, unitVars>>
    \/ snap_lookup(1) /\ UNCHANGED <<orchVars, voiceVars, unitVars>>
    \/ snap_append(1) /\ UNCHANGED <<orchVars, voiceVars, unitVars>>
    \/ snap_check(1) /\ UNCHANGED <<orchVars, voiceVars, unitVars>>
    \/ snap_rhs(1) /\ UNCHANGED <<orchVars, voiceVars, unitVars>>
    \/ snap_slice(1) /\ UNCHANGED <<orchVars, voiceVars, unitVars>>
    \/ snap_lhs(1) /\ UNCHANGED <<orchVars, voiceVars, unitVars>>
    \/ snap_store(1) /\ UNCHANGED <<orchVars, voiceVars, unitVars>>

----------------------------------------------------------------------------
(***************************************************************************)
(* VoiceInteractionManager.listen_with_retry                               *)
(***************************************************************************)
NoText == "None"
\* what listen returns: None (timeout, unintelligible audio, any error), the
\* empty string (Whisper's text.strip() of silence) or a transcription
ListenResults == {NoText, "", "yes", "I worked on it"}
NoResponse == "No response detected after multiple attempts."
\* "if text:"
Truthy(text) == text # NoText /\ text # ""
LwrIdle == [pc |-> "idle", max_retries |-> 0, attempt |-> 0, text |-> NoText,
            ret |-> NoText, heard |-> <<>>]

InitListen == lwr = LwrIdle

\* "for attempt in range(max_retries)" with one more turn than asked for
InRange_OneMore(attempt, max_retries) == attempt <= max_retries

\* "for attempt in range(max_retries)": is there a turn for this value of attempt
InRange(attempt, max_retries) == attempt < max_retries

\* the for statement: the next turn, or the code after the loop
ForTurn(attempt, max_retries) == IF InRange(attempt, max_retries) THEN "listen" ELSE "after"

\* listen_with_retry(max_retries = n) is called
lwr_call(n) ==
    /\ lwr.pc = "idle"
    /\ lwr' = [LwrIdle EXCEPT !.pc = ForTurn(0, n), !.max_retries = n]

\* text = self.listen(timeout, phrase_time_limit)
lwr_listen(text) ==
    /\ lwr.pc = "listen"
    /\ lwr' = [lwr EXCEPT !.pc = "test", !.text = text, !.heard = Append(@, text)]

\* "if text: return text", else ask to repeat unless this was the last attempt,
\* and go on with the next turn of the for statement
lwr_test ==
    /\ lwr.pc = "test"
    /\ IF Truthy(lwr.text)
       THEN lwr' = [lwr EXCEPT !.pc = "done", !.ret = lwr.text]
       ELSE lwr' = [lwr EXCEPT !.pc = ForTurn(lwr.attempt + 1, lwr.max_retries),
                               !.attempt = @ + 1]

\* after the loop: every attempt failed, the sentinel answer is returned
lwr_after ==
    /\ lwr.pc = "after"
    /\ lwr' = [lwr EXCEPT !.pc = "done", !.ret = NoResponse]

LwrStep ==
    /\ (\E text \in ListenResults : lwr_listen(text)) \/ lwr_test \/ lwr_after
    /\ UNCHANGED lwrFrame

NextListen ==
    \/ \E n \in 0..MaxRetries : lwr_call(n) /\ UNCHANGED lwrFrame
    \/ \E text \in ListenResults : lwr_listen(text) /\ UNCHANGED lwrFrame
    \/ lwr_test /\ UNCHANGED lwrFrame
    \/ lwr_after /\ UNCHANGED lwrFrame

----------------------------------------------------------------------------
(***************************************************************************)
(* The behavioural scores of ai_interview_views.py.  The code computes     *)
(* base + (a / len(emotion_data)) * w1 + (b / len(posture_data)) * w2 in   *)
(* floating point and truncates with int(); the operators compute the same *)
(* value over the common denominator in integers.                          *)
(***************************************************************************)
EmotionLabels == {"Happy", "Neutral", "Sad", "Surprised", "Confused", "Disgusted", "Angry"}
PostureLabels == {"Attentive", "Neutral", "Slouched", "Leaning Left"}

RECURSIVE SeqsUpTo(_, _)
\* the sequences over S of length at most n
SeqsUpTo(S, n) == IF n = 0 THEN {<<>>}
                  ELSE LET shorter == SeqsUpTo(S, n - 1)
                       IN shorter \cup {Append(q, x) : q \in shorter, x \in S}

\* sum(1 for x in data if x in labels)
CountIn(data, labels) == Cardinality({k \in 1..Len(data) : data[k] \in labels})
\* int(x) of the quotient num / den, den > 0: truncation towards zero
IntOf(num, den) == IF num >= 0 THEN num \div den ELSE -((-num) \div den)
\* max(0, min(100, x))
Clamp(x) == IF x < 0 THEN 0 ELSE IF x > 100 THEN 100 ELSE x
\* The floating-point sum base + a / le * w1 + b / lp * w2 agrees with the exact
\* one in its integer part for every stream of up to 8 emotions and 15
\* postures and every one of the five scores, with one exception: for the
\* confidence score of 7 emotions and 14 postures with a = -5 and b = 1 the
\* terms are -21.42857142857143 and 1.4285714285714284, and the sum is
\* 29.999999999999996 where the exact one is 30.
FloatShortfall(base, a, le, w1, b, lp, w2) ==
    IF <<base, a, le, w1, b, lp, w2>> = <<50, -5, 7, 30, 1, 14, 20>> THEN 1 ELSE 0

\* max(0, min(100, int(base + a / le * w1 + b / lp * w2)))
Weighted(base, a, le, w1, b, lp, w2) ==
    Clamp(IntOf(base * le * lp + w1 * a * lp + w2 * b * le, le * lp)
              - FloatShortfall(base, a, le, w1, b, lp, w2))

calculate_confidence_score(emotion_data, posture_data) ==
    IF emotion_data = <<>> \/ posture_data = <<>> THEN 50
    ELSE Weighted(50,
             CountIn(emotion_data, {"Happy", "Neutral"})
                 - CountIn(emotion_data, {"Sad", "Confused", "Disgusted"}),
             Len(emotion_data), 30,
             CountIn(posture_data, {"Attentive", "Neutral"}) - CountIn(posture_data, {"Slouched"}),
             Len(posture_data), 20)

calculate_engagement_score(emotion_data, posture_data) ==
    IF emotion_data = <<>> \/ posture_data = <<>> THEN 50
    ELSE Weighted(50,
             CountIn(emotion_data, {"Happy", "Surprised", "Neutral"})
                 - CountIn(emotion_data, {"Sad", "Disgusted"}),
             Len(emotion_data), 25,
             CountIn(posture_data, {"Attentive"}) - CountIn(posture_data, {"Slouched"}),
             Len(posture_data), 25)

calculate_communication_score(emotion_data, posture_data) ==
    IF emotion_data = <<>> \/ posture_data = <<>> THEN 50
    ELSE Weighted(50, CountIn(emotion_data, {"Happy", "Neutral"}), Len(emotion_data), 25,
                      CountIn(posture_data, {"Attentive", "Neutral"}), Len(posture_data), 25)

calculate_body_language_score(emotion_data, posture_data) ==
    IF emotion_data = <<>> \/ posture_data = <<>> THEN 50
    ELSE Weighted(50, CountIn(emotion_data, {"Happy", "Neutral", "Surprised"}),
                      Len(emotion_data), 30,
                      CountIn(posture_data, {"Attentive", "Neutral"}), Len(posture_data), 20)

\* the eye contact score with the default of the other four scores
calculate_eye_contact_score_Default50(emotion_data, posture_data) ==
    IF emotion_data = <<>> \/ posture_data = <<>> THEN 50
    ELSE Weighted(70, CountIn(emotion_data, {"Happy", "Neutral"}), Len(emotion_data), 15,
                      CountIn(posture_data, {"Attentive"}), Len(posture_data), 15)

calculate_eye_contact_score(emotion_data, posture_data) ==
    IF emotion_data = <<>> \/ posture_data = <<>> THEN 70
    ELSE Weighted(70, CountIn(emotion_data, {"Happy", "Neutral"}), Len(emotion_data), 15,
                      CountIn(posture_data, {"Attentive"}), Len(posture_data), 15)

\* the five scores generate_report_thread computes from the two streams
BehavioralScores(emotion_data, posture_data) ==
    [confidence |-> calculate_confidence_score(emotion_data, posture_data),
     engagement |-> calculate_engagement_score(emotion_data, posture_data),
     communication |-> calculate_communication_score(emotion_data, posture_data),
     body_language |-> calculate_body_language_score(emotion_data, posture_data),
     eye_contact |-> calculate_eye_contact_score(emotion_data, posture_data)]

NoScores == [called |-> FALSE, emotion_data |-> <<>>, posture_data |-> <<>>,
             scores |-> BehavioralScores(<<>>, <<>>)]

InitScores == sc = NoScores

\* generate_report_thread: the scores of the streams of an interview (one
\* computation per behaviour)
calculate_scores(emotion_data, posture_data) ==
    /\ ~sc.called
    /\ sc' = [called |-> TRUE, emotion_data |-> emotion_data,
              posture_data |-> posture_data,
              scores |-> BehavioralScores(emotion_data, posture_data)]

NextScores ==
    /\ ~sc.called
    /\ \E e \in SeqsUpTo(EmotionLabels, MaxStream), p \in SeqsUpTo(PostureLabels, MaxStream) :
           calculate_scores(e, p) /\ UNCHANGED scFrame

\* n entries x
Repeat(x, n) == [k \in 1..n |-> x]
\* the streams of an interview by what the confidence score counts in them: c
\* confident entries, u unconfident ones and o others
EmotionStreamsByCount ==
    {Repeat("Happy", c) \o Repeat("Sad", u) \o Repeat("Angry", o) :
        <<c, u, o>> \in {t \in (0..MaxEmotionStream) \X (0..MaxEmotionStream)
                                   \X (0..MaxEmotionStream) :
                            t[1] + t[2] + t[3] \in 1..MaxEmotionStream}}
PostureStreamsByCount ==
    {Repeat("Attentive", c) \o Repeat("Slouched", u) \o Repeat("Leaning Left", o) :
        <<c, u, o>> \in {t \in (0..MaxPostureStream) \X (0..MaxPostureStream)
                                   \X (0..MaxPostureStream) :
                            t[1] + t[2] + t[3] \in 1..MaxPostureStream}}

\* the scores of the longer streams an interview collects
NextLongStreams ==
    /\ ~sc.called
    /\ \E e \in EmotionStreamsByCount, p \in PostureStreamsByCount :
           calculate_scores(e, p) /\ UNCHANGED scFrame

----------------------------------------------------------------------------
(***************************************************************************)
(* AIInterviewer._validate_and_fix_scoring.  A narrative is what the       *)
(* regular expressions of the validator read in it: the numbers of its     *)
(* 'Score: N/10' occurrences in document order, and the values it states   *)
(* as Non-Technical Average, Technical Average (in this order) and Final   *)
(* Score.  Stated values are in tenths (70 is 7.0); the averages and the   *)
(* final score the code computes in floating point are kept as exact       *)
(* fractions [num, den].                                                   *)
(***************************************************************************)
Absent == -1
\* the numbers N of the 'Score: N/10' occurrences
ScoreValues == {5, 6, 7, 8, 9, 15}
\* interview_data: how many non-technical and technical questions it holds
GroundTruths == {[nt |-> 2, t |-> 3], [nt |-> 1, t |-> 1], [nt |-> 0, t |-> 2],
                 [nt |-> 3, t |-> 3]}
\* what the narrative states: nothing, or the two averages and the final score
Statements == {[nta |-> Absent, ta |-> Absent, fs |-> Absent],
               [nta |-> 70, ta |-> 70, fs |-> 700],
               [nta |-> 60, ta |-> 80, fs |-> 740]}

RECURSIVE SumSeq(_)
SumSeq(q) == IF q = <<>> THEN 0 ELSE Head(q) + SumSeq(Tail(q))

\* all_scores[:len(non_technical_questions)], when enough scores were found
NonTechScores(all_scores, gt) ==
    IF Len(all_scores) >= gt.t + gt.nt THEN SubSeq(all_scores, 1, gt.nt) ELSE <<>>
\* all_scores[len(non_technical_questions):len(non_technical_questions) + len(technical_questions)]
TechScores(all_scores, gt) ==
    IF Len(all_scores) >= gt.t + gt.nt THEN SubSeq(all_scores, gt.nt + 1, gt.nt + gt.t)
    ELSE <<>>

\* sum(scores) / len(scores), 0 without scores
Average(scores) == IF scores = <<>> THEN [num |-> 0, den |-> 1]
                   ELSE [num |-> SumSeq(scores), den |-> Len(scores)]

\* the final score with the two weights exchanged
CorrectFinalScore_WeightsSwapped(non_tech_avg, tech_avg) ==
    [num |-> 7 * non_tech_avg.num * tech_avg.den + 3 * tech_avg.num * non_tech_avg.den,
     den |-> non_tech_avg.den * tech_avg.den]

\* (correct_non_tech_avg * 10 * 0.3) + (correct_tech_avg * 10 * 0.7)
CorrectFinalScore(non_tech_avg, tech_avg) ==
    [num |-> 3 * non_tech_avg.num * tech_avg.den + 7 * tech_avg.num * non_tech_avg.den,
     den |-> non_tech_avg.den * tech_avg.den]

\* f"{x:.1f}": the fraction rounded to tenths, to the even tenth on a tie
OneDecimal(x) ==
    LET q == (10 * x.num) \div x.den
        r == (10 * x.num) % x.den
    IN IF 2 * r > x.den \/ (2 * r = x.den /\ q % 2 = 1) THEN q + 1 ELSE q

\* abs(reported - correct) > tolerance, reported and tolerance in tenths
DiffersBy(reported, correct, tolerance) ==
    LET d == reported * correct.den - 10 * correct.num
    IN (IF d >= 0 THEN d ELSE -d) > tolerance * correct.den

\* re.search(r'Technical Average...'): the first place that reads "Technical
\* Average", which is inside "Non-Technical Average" when that is stated
TechAvgMatch(st) == IF st.nta # Absent THEN st.nta ELSE st.ta

NeedsFixing(st, non_tech_scores, tech_scores) ==
    LET na == Average(non_tech_scores)
        ta == Average(tech_scores)
    IN \/ st.nta = Absent \/ TechAvgMatch(st) = Absent \/ st.fs = Absent
       \/ non_tech_scores # <<>> /\ DiffersBy(st.nta, na, 1)
       \/ tech_scores # <<>> /\ DiffersBy(TechAvgMatch(st), ta, 1)
       \/ DiffersBy(st.fs, CorrectFinalScore(na, ta), 10)

\* the values the returned narrative shows after "Non-Technical Average", in
\* tenths.  The rewritten narrative carries the new scoring section; the first
\* re.sub writes the non-technical average at every such place, and the second
\* one, made when 'Technical Average' was found, matches the same places again
\* (inside "Non-Technical Average") and writes the technical average there.
ShownAsNonTechAverage(st, fix, non_tech_avg, tech_avg) ==
    IF ~fix THEN {st.nta} \ {Absent}
    ELSE IF TechAvgMatch(st) # Absent THEN {OneDecimal(tech_avg)}
    ELSE {OneDecimal(non_tech_avg)}

\* the values the returned narrative shows after "Technical Average" outside
\* "Non-Technical Average", in tenths
ShownAsTechAverage(st, fix, tech_avg) ==
    IF fix THEN {OneDecimal(tech_avg)} ELSE {st.ta} \ {Absent}

NotValidated == [called |-> FALSE, all_scores |-> <<>>, gt |-> [nt |-> 0, t |-> 0],
                 st |-> [nta |-> Absent, ta |-> Absent, fs |-> Absent],
                 non_tech_scores |-> <<>>, tech_scores |-> <<>>,
                 correct_non_tech_avg |-> [num |-> 0, den |-> 1],
                 correct_tech_avg |-> [num |-> 0, den |-> 1],
                 correct_final_score |-> [num |-> 0, den |-> 1],
                 needs_fixing |-> FALSE, finals |-> {},
                 non_tech_shown |-> {}, tech_shown |-> {}]

InitValidator == val = NotValidated

\* _validate_and_fix_scoring(report, interview_data) (one call per behaviour).
\* finals: the values the returned narrative shows as Final Score, in tenths: the
\* rewritten narrative carries the new scoring section and has every stated
\* 'Final Score: N' replaced; the narrative returned as it came shows what it stated.
validate_and_fix_scoring(all_scores, gt, st) ==
    /\ ~val.called
    /\ LET nts == NonTechScores(all_scores, gt)
           ts == TechScores(all_scores, gt)
           final == CorrectFinalScore(Average(nts), Average(ts))
           fix == NeedsFixing(st, nts, ts)
       IN val' = [called |-> TRUE, all_scores |-> all_scores, gt |-> gt, st |-> st,
                  non_tech_scores |-> nts, tech_scores |-> ts,
                  correct_non_tech_avg |-> Average(nts),
                  correct_tech_avg |-> Average(ts),
                  correct_final_score |-> final,
                  needs_fixing |-> fix,
                  finals |-> IF fix THEN {OneDecimal(final)} ELSE {st.fs},
                  non_tech_shown |-> ShownAsNonTechAverage(st, fix, Average(nts), Average(ts)),
                  tech_shown |-> ShownAsTechAverage(st, fix, Average(ts))]

NextValidator ==
    /\ ~val.called
    /\ \E all_scores \in SeqsUpTo(ScoreValues, MaxScoreLines), gt \in GroundTruths,
          st \in Statements :
           validate_and_fix_scoring(all_scores, gt, st) /\ UNCHANGED valFrame

----------------------------------------------------------------------------
(***************************************************************************)
(* EfficientEmotionDetector.classify_emotion_simple.  The ratios of a      *)
(* feature vector are in thousandths (0.016 is 16); each is drawn from     *)
(* values that lie on every side of the thresholds the rules compare it    *)
(* with.  mouth_detected is drawn independently of the mouth ratios.       *)
(***************************************************************************)
MouthSizeRatios == {0, 9, 11, 14, 20, 35, 50}
MouthWidthRatios == {200, 300, 350, 400, 450, 600}
MouthVerticalPositions == {500, 600, 660, 700, 750}
EyeHeightRatios == {50, 70, 90, 110, 130, 150, 170}
EyeVerticalPositions == {150, 170, 185, 200, 225, 250, 330}
FaceRatios == {800, 1000}
NumEyes == {1, 2}
FeatureVectors ==
    [num_eyes : NumEyes, eye_height_ratio : EyeHeightRatios,
     eye_vertical_pos : EyeVerticalPositions, mouth_detected : BOOLEAN,
     mouth_size_ratio : MouthSizeRatios, mouth_vertical_pos : MouthVerticalPositions,
     mouth_width_ratio : MouthWidthRatios, face_ratio : FaceRatios]

\* "+= points" under a condition
Points(cond, points) == IF cond THEN points ELSE 0

\* the rules for Happy with the first of them outside "if features['mouth_detected']"
HappyScore_FirstRuleUngated(f) ==
    Points(16 < f.mouth_size_ratio /\ f.mouth_size_ratio < 45
           /\ 250 < f.mouth_width_ratio /\ f.mouth_width_ratio < 520, 5)
    + (IF f.mouth_detected
       THEN Points(530 < f.mouth_vertical_pos /\ f.mouth_vertical_pos < 720, 2)
            + Points(f.eye_height_ratio > 100, 1)
            + Points(f.mouth_width_ratio > 380 /\ f.mouth_vertical_pos < 650, 2)
       ELSE 0)

HappyScore(f) ==
    IF f.mouth_detected
    THEN Points(16 < f.mouth_size_ratio /\ f.mouth_size_ratio < 45
                /\ 250 < f.mouth_width_ratio /\ f.mouth_width_ratio < 520, 5)
         + Points(530 < f.mouth_vertical_pos /\ f.mouth_vertical_pos < 720, 2)
         + Points(f.eye_height_ratio > 100, 1)
         + Points(f.mouth_width_ratio > 380 /\ f.mouth_vertical_pos < 650, 2)
    ELSE 0

\* the rules for Surprised with the first of them not asking for a mouth
SurprisedScore_MouthUngated(f) ==
    IF f.eye_height_ratio > 160 /\ f.mouth_size_ratio > 30 THEN 4
    ELSE IF f.eye_height_ratio > 140 THEN 2
    ELSE 0

SurprisedScore(f) ==
    IF f.eye_height_ratio > 160 /\ f.mouth_detected /\ f.mouth_size_ratio > 30 THEN 4
    ELSE IF f.eye_height_ratio > 140 THEN 2
    ELSE 0

SadScore(f) ==
    Points(f.mouth_detected /\ f.mouth_size_ratio < 12, 2)
    + Points(230 < f.eye_vertical_pos /\ f.eye_vertical_pos < 320, 2)
    + Points(f.mouth_detected /\ f.mouth_vertical_pos > 680, 1)

AngryScore(f) ==
    Points(~f.mouth_detected, 2)
    + Points(f.eye_height_ratio < 80 /\ 180 < f.eye_vertical_pos /\ f.eye_vertical_pos < 230, 3)
    + Points(f.face_ratio > 920, 1)

ConfusedScore(f) ==
    Points(f.num_eyes < 2, 2)
    + Points(160 < f.eye_vertical_pos /\ f.eye_vertical_pos < 190, 1)
    + Points(f.mouth_detected /\ 8 < f.mouth_size_ratio /\ f.mouth_size_ratio < 15, 2)

DisgustedScore(f) ==
    Points(f.mouth_detected /\ f.mouth_size_ratio < 10, 2)
    + Points(f.mouth_detected /\ f.mouth_vertical_pos > 720, 2)
    + Points(f.eye_height_ratio < 55, 1)

\* all(neutral_conditions)
NeutralScore(f) ==
    Points(/\ f.mouth_detected
           /\ 13 < f.mouth_size_ratio /\ f.mouth_size_ratio < 22
           /\ 180 < f.eye_vertical_pos /\ f.eye_vertical_pos < 220
           /\ 80 < f.eye_height_ratio /\ f.eye_height_ratio < 120
           /\ 320 < f.mouth_width_ratio /\ f.mouth_width_ratio < 410, 6)

\* the scores dictionary at the end of the rules
EmotionScores(f) ==
    [Happy |-> HappyScore(f), Sad |-> SadScore(f), Angry |-> AngryScore(f),
     Surprised |-> SurprisedScore(f), Neutral |-> NeutralScore(f),
     Confused |-> ConfusedScore(f), Disgusted |-> DisgustedScore(f)]

\* max(scores.values())
MaxOf(scores) == CHOOSE m \in {scores[e] : e \in EmotionLabels} :
                     \A e \in EmotionLabels : scores[e] <= m

\* "if max_score < 2" in place of "if max_score < 3"
TooWeak_BelowTwo(max_score) == max_score < 2

\* "if max_score < 3: return 'Neutral', scores"
TooWeak(max_score) == max_score < 3

\* the keys in the order of the scores dictionary in place of the priority list
priority_DictionaryOrder ==
    <<"Happy", "Sad", "Angry", "Surprised", "Neutral", "Confused", "Disgusted">>

priority == <<"Happy", "Neutral", "Sad", "Surprised", "Confused", "Disgusted", "Angry">>

\* "for emo in priority: if emo in max_emotions: return emo"
FirstOfPriority(scores) ==
    LET k == CHOOSE j \in 1..Len(priority) :
                 /\ scores[priority[j]] = MaxOf(scores)
                 /\ \A h \in 1..(j - 1) : scores[priority[h]] # MaxOf(scores)
    IN priority[k]

\* the label classify_emotion_simple returns
ClassifiedEmotion(scores) ==
    IF TooWeak(MaxOf(scores)) THEN "Neutral" ELSE FirstOfPriority(scores)

NotClassified == [called |-> FALSE, features |-> CHOOSE f \in FeatureVectors : TRUE,
                  scores |-> [e \in EmotionLabels |-> 0], emotion |-> "Neutral"]

InitEmotion == emo = NotClassified

\* classify_emotion_simple(features) (one call per behaviour)
classify_emotion_simple(features) ==
    /\ ~emo.called
    /\ emo' = [called |-> TRUE, features |-> features, scores |-> EmotionScores(features),
               emotion |-> ClassifiedEmotion(EmotionScores(features))]

NextEmotion ==
    /\ ~emo.called
    /\ \E features \in FeatureVectors : classify_emotion_simple(features) /\ UNCHANGED emoFrame

----------------------------------------------------------------------------
(***************************************************************************)
(* EfficientEmotionDetector.smooth_emotion on the detector's               *)
(* emotion_history, a deque(maxlen=5).  Votes are in thousandths.  The     *)
(* weights are floats: 0.8 + 0.4 and 0.4 + 0.2 come out one unit in the    *)
(* last place above 1.2 and 0.6, which decides two ties; every other pair  *)
(* of votes compares as the exact sums do.                                 *)
(***************************************************************************)
\* deque(maxlen=5).append
DequeAppend(history, emotion) ==
    IF Len(history) = 5 THEN Tail(history) \o <<emotion>> ELSE Append(history, emotion)

weights == <<1000, 800, 600, 400, 200>>

\* the places of e in reversed(self.emotion_history), the newest entry at 1
PlacesOf(history, e) == {i \in 1..Len(history) : history[Len(history) + 1 - i] = e}

RECURSIVE WeightSum(_)
WeightSum(places) ==
    IF places = {} THEN 0
    ELSE LET i == CHOOSE j \in places : TRUE IN weights[i] + WeightSum(places \ {i})

\* emotion_scores[e] after the loop
Vote(history, e) ==
    WeightSum(PlacesOf(history, e))
    + (IF PlacesOf(history, e) \in {{2, 4}, {4, 5}} THEN 1 ELSE 0)

\* max(emotion_scores.items(), key=lambda x: x[1]): the first of the largest
\* votes in the order of insertion, which is the order of reversed history
max_emotion(history) ==
    LET i == CHOOSE j \in 1..Len(history) :
                 /\ \A k \in 1..Len(history) :
                        Vote(history, history[Len(history) + 1 - k])
                            <= Vote(history, history[Len(history) + 1 - j])
                 /\ \A k \in 1..(j - 1) :
                        Vote(history, history[Len(history) + 1 - k])
                            < Vote(history, history[Len(history) + 1 - j])
    IN history[Len(history) + 1 - i]

\* "max_emotion[1] > threshold" with the threshold 0 of 'Neutral' for every current
BeatsThreshold_ZeroThreshold(history, current) ==
    Vote(history, max_emotion(history)) > 0

\* "max_emotion[1] > threshold" with the threshold at the vote of current itself,
\* without the factor 1.3
BeatsThreshold_AnyLead(history, current) ==
    IF current # "Neutral"
    THEN Vote(history, max_emotion(history)) > Vote(history, current)
    ELSE Vote(history, max_emotion(history)) > 0

\* "max_emotion[1] > threshold", threshold being 1.3 times the vote of current,
\* or 0 when current is Neutral
BeatsThreshold(history, current) ==
    IF current # "Neutral"
    THEN 10 * Vote(history, max_emotion(history)) > 13 * Vote(history, current)
    ELSE Vote(history, max_emotion(history)) > 0

\* "if len(self.emotion_history) < 2" in place of "< 3"
TooShort_BelowTwo(history) == Len(history) < 2

\* "if len(self.emotion_history) < 3: return emotion"
TooShort(history) == Len(history) < 3

\* what smooth_emotion returns once emotion is in the history
Smoothed(history, emotion) ==
    IF TooShort(history) THEN emotion
    ELSE LET current == history[Len(history) - 1]
         IN IF BeatsThreshold(history, current) THEN max_emotion(history) ELSE current

FreshSmoother == [emotion_history |-> <<>>, calls |-> 0, emotion |-> "Neutral",
                  smoothed |-> "Neutral"]

InitSmoother == smo = FreshSmoother

\* smooth_emotion(emotion)
smooth_emotion(emotion) ==
    /\ smo.calls < MaxSmoothCalls
    /\ smo' = [emotion_history |-> DequeAppend(smo.emotion_history, emotion),
               calls |-> smo.calls + 1,
               emotion |-> emotion,
               smoothed |-> Smoothed(DequeAppend(smo.emotion_history, emotion), emotion)]

NextSmooth == \E emotion \in EmotionLabels : smooth_emotion(emotion) /\ UNCHANGED smoFrame

----------------------------------------------------------------------------
(***************************************************************************)
(* MediaPipePostureAnalyzer.analyze.  Landmark coordinates are in          *)
(* thousandths of the frame; readable is FALSE when indexing the landmarks *)
(* raises.                                                                 *)
(***************************************************************************)
LandmarkSets ==
    [readable : BOOLEAN,
     left_shoulder_x : {400, 600, 650}, left_shoulder_y : {400, 450, 480, 500, 530, 600},
     right_shoulder_x : {400, 600}, right_shoulder_y : {500},
     nose_x : {400, 500, 520, 600, 650}, nose_y : {300, 500, 560, 590, 600, 650}]

Abs(x) == IF x < 0 THEN -x ELSE x

\* nose_offset = (nose_x - shoulder_center_x) / (shoulder_width + 1e-6), in
\* thousandths, is OffsetNum(l) / OffsetDen(l); OffsetDen(l) is positive
OffsetNum(l) == (2 * l.nose_x - l.left_shoulder_x - l.right_shoulder_x) * 500000
OffsetDen(l) == 1000 * Abs(l.left_shoulder_x - l.right_shoulder_x) + 1

\* the chain of tests with the two leaning tests ahead of the slouch test
PostureOf_LeaningFirst(l) ==
    LET shoulder_tilt == l.left_shoulder_y - l.right_shoulder_y
        nose_vs_shoulder2 == 2 * l.nose_y - (l.left_shoulder_y + l.right_shoulder_y)
    IN IF ~l.readable THEN "No Person"
       ELSE IF OffsetNum(l) > 180 * OffsetDen(l) \/ shoulder_tilt < -70 THEN "Leaning Right"
       ELSE IF OffsetNum(l) < -180 * OffsetDen(l) \/ shoulder_tilt > 70 THEN "Leaning Left"
       ELSE IF nose_vs_shoulder2 > 160 THEN "Slouched"
       ELSE IF Abs(OffsetNum(l)) < 80 * OffsetDen(l)
               /\ Abs(shoulder_tilt) < 40 /\ nose_vs_shoulder2 < 40
            THEN "Attentive"
       ELSE "Neutral"

\* the chain of tests with the test for Leaning Left ahead of the one for
\* Leaning Right
PostureOf_LeftBeforeRight(l) ==
    LET shoulder_tilt == l.left_shoulder_y - l.right_shoulder_y
        nose_vs_shoulder2 == 2 * l.nose_y - (l.left_shoulder_y + l.right_shoulder_y)
    IN IF ~l.readable THEN "No Person"
       ELSE IF nose_vs_shoulder2 > 160 THEN "Slouched"
       ELSE IF OffsetNum(l) < -180 * OffsetDen(l) \/ shoulder_tilt > 70 THEN "Leaning Left"
       ELSE IF OffsetNum(l) > 180 * OffsetDen(l) \/ shoulder_tilt < -70 THEN "Leaning Right"
       ELSE IF Abs(OffsetNum(l)) < 80 * OffsetDen(l)
               /\ Abs(shoulder_tilt) < 40 /\ nose_vs_shoulder2 < 40
            THEN "Attentive"
       ELSE "Neutral"

\* the posture analyze returns; nose_vs_shoulder2 is twice nose_vs_shoulder
PostureOf(l) ==
    LET shoulder_tilt == l.left_shoulder_y - l.right_shoulder_y
        nose_vs_shoulder2 == 2 * l.nose_y - (l.left_shoulder_y + l.right_shoulder_y)
    IN IF ~l.readable THEN "No Person"
       ELSE IF nose_vs_shoulder2 > 160 THEN "Slouched"
       ELSE IF OffsetNum(l) > 180 * OffsetDen(l) \/ shoulder_tilt < -70 THEN "Leaning Right"
       ELSE IF OffsetNum(l) < -180 * OffsetDen(l) \/ shoulder_tilt > 70 THEN "Leaning Left"
       ELSE IF Abs(OffsetNum(l)) < 80 * OffsetDen(l)
               /\ Abs(shoulder_tilt) < 40 /\ nose_vs_shoulder2 < 40
            THEN "Attentive"
       ELSE "Neutral"

NotAnalyzed == [called |-> FALSE, landmarks |-> CHOOSE l \in LandmarkSets : TRUE,
                posture |-> "No Person"]

InitPosture == pos = NotAnalyzed

\* analyze(landmarks) (one call per behaviour)
analyze(landmarks) ==
    /\ ~pos.called
    /\ pos' = [called |-> TRUE, landmarks |-> landmarks, posture |-> PostureOf(landmarks)]

NextPosture ==
    /\ ~pos.called
    /\ \E landmarks \in LandmarkSets : analyze(landmarks) /\ UNCHANGED posFrame

----------------------------------------------------------------------------
(***************************************************************************)
(* AIInterviewer.generate_questions and generate_report against the        *)
(* narrative-generation capability (the Together client).  A response text *)
(* is what the extraction reads in it: whether it is a ```json fenced      *)
(* block, and what stands inside the fence (or is the whole text).         *)
(***************************************************************************)
CapabilityModes == {"unavailable", "raises", "responds"}
InnerTexts == {"", "[q1, q2]", "[oops]", "prose", "{}"}
ResponseTexts == [fenced : BOOLEAN, inner : InnerTexts]
NoneValue == "None"

\* re.search(r'```json\s*([\s\S]*?)\s*```|(\[[\s\S]*\])', response_text), then
\* "json_match.group(1) or json_match.group(2)", else the text itself
JsonStr(text) ==
    IF text.fenced
    THEN (IF text.inner # "" THEN text.inner ELSE NoneValue)
    ELSE text.inner

\* json.loads(json_str): the list or dict it returns, "JSONDecodeError" otherwise
JsonLoads(json_str) ==
    CASE json_str = "[q1, q2]" -> [kind |-> "list", n |-> 2]
      [] json_str = "{}" -> [kind |-> "dict", n |-> 0]
      [] OTHER -> [kind |-> "JSONDecodeError", n |-> 0]

\* what generate_questions returns or raises for a response text; the mock
\* questions are 5
QuestionsFrom(text) ==
    IF JsonStr(text) = NoneValue THEN [kind |-> "AttributeError", n |-> 0]
    ELSE IF JsonLoads(JsonStr(text)).kind = "JSONDecodeError" THEN [kind |-> "list", n |-> 5]
    ELSE JsonLoads(JsonStr(text))

NotCalled == [called |-> FALSE, op |-> "none", mode |-> "unavailable",
              text |-> [fenced |-> FALSE, inner |-> ""],
              result |-> [kind |-> "none", n |-> 0]]

InitCapability == cap = NotCalled

\* generate_questions(): without the capability, or when it raises, the text is
\* the mock response, a list of 20 questions
generate_questions(mode, text) ==
    /\ ~cap.called
    /\ cap' = [called |-> TRUE, op |-> "generate_questions", mode |-> mode, text |-> text,
               result |-> IF mode = "responds" THEN QuestionsFrom(text)
                          ELSE [kind |-> "list", n |-> 20]]

\* generate_report(interview_data): the narrative of the capability, or the mock
\* report, which holds no score, handed to _validate_and_fix_scoring
generate_report(mode, all_scores, gt, st) ==
    /\ ~cap.called
    /\ cap' = [called |-> TRUE, op |-> "generate_report", mode |-> mode,
               text |-> [fenced |-> FALSE, inner |-> "prose"],
               result |-> [kind |-> IF mode = "responds" THEN "narrative" ELSE "mock report",
                           n |-> 0]]
    /\ IF mode = "responds" THEN validate_and_fix_scoring(all_scores, gt, st)
       ELSE validate_and_fix_scoring(<<>>, gt, [nta |-> Absent, ta |-> Absent, fs |-> Absent])

NextCapability ==
    /\ ~cap.called
    /\ \/ \E mode \in CapabilityModes, text \in ResponseTexts :
              generate_questions(mode, text) /\ UNCHANGED capFrame
       \/ \E mode \in CapabilityModes, all_scores \in SeqsUpTo(ScoreValues, MaxScoreLines),
             gt \in GroundTruths, st \in Statements :
              generate_report(mode, all_scores, gt, st)
              /\ UNCHANGED <<orchVars, voiceVars, bufVars, lwr, sc, emo, smo, pos, rpt, reg>>

----------------------------------------------------------------------------
(***************************************************************************)
(* generate_report_thread: the technical, non-technical and overall score  *)
(* it extracts from the narrative and writes to the InterviewResult.  As   *)
(* for the validator, a narrative is what it states as Non-Technical       *)
(* Average, Technical Average (in this order) and Final Score, in tenths.  *)
(***************************************************************************)
StatedNarratives == [nta : {Absent, 0, 29, 30, 60}, ta : {Absent, 0, 20, 57, 80},
                     fs : {Absent, 0, 230, 740, 746}]

\* the three scores after the searches: float(group(1)) * 10 for the averages,
\* float(group(1)) for the final score (kept in tenths here), 0 when not found
ExtractedScores(st) ==
    [technical_score |-> IF TechAvgMatch(st) # Absent THEN TechAvgMatch(st) ELSE 0,
     non_technical_score |-> IF st.nta # Absent THEN st.nta ELSE 0,
     overall_tenths |-> IF st.fs # Absent THEN st.fs ELSE 0]

\* the defaults of the InterviewResult: 50 each when the three scores are 0,
\* int(score) otherwise
PersistedScores(st) ==
    LET x == ExtractedScores(st)
    IN IF x.technical_score = 0 /\ x.non_technical_score = 0 /\ x.overall_tenths = 0
       THEN [technical_score |-> 50, non_technical_score |-> 50, overall_score |-> 50]
       ELSE [technical_score |-> x.technical_score,
             non_technical_score |-> x.non_technical_score,
             overall_score |-> x.overall_tenths \div 10]

InitPersist == rpt = [called |-> FALSE, st |-> [nta |-> Absent, ta |-> Absent, fs |-> Absent],
                      result |-> [technical_score |-> 0, non_technical_score |-> 0,
                                  overall_score |-> 0]]

\* the extraction and the update_or_create of generate_report_thread (one run
\* per behaviour)
persist_scores(st) ==
    /\ ~rpt.called
    /\ rpt' = [called |-> TRUE, st |-> st, result |-> PersistedScores(st)]

NextPersist ==
    /\ ~rpt.called
    /\ \E st \in StatedNarratives : persist_scores(st) /\ UNCHANGED rptFrame

----------------------------------------------------------------------------
(***************************************************************************)
(* The registry ai_interviewers under start requests and report threads    *)
(* of two interviews, statement by statement: a dict assignment, lookup or *)
(* deletion is one step, and a thread may be preempted between the test    *)
(* and the deletion of its finally block.                                  *)
(***************************************************************************)
RegIds == {1, 2}
RegThreads == 1..MaxTasks
NoThread == [pc |-> "none", id |-> 0, session |-> NoSession]

InitRegistry ==
    reg = [registry |-> [i \in RegIds |-> NoSession], next |-> 0,
           threads |-> [t \in RegThreads |-> NoThread], raised |-> FALSE]

\* ai_interview_start: "ai_interviewers[interview_id] = ai_interviewer" with a
\* new instance; start_voice_interview (voice): the same only when
\* ai_interviewers.get(interview_id) finds none
reg_start(i, voice) ==
    /\ reg.next < MaxSessions
    /\ reg' = IF voice /\ reg.registry[i] # NoSession THEN reg
              ELSE [reg EXCEPT !.registry[i] = reg.next + 1, !.next = reg.next + 1]

\* ai_interview_complete: "ai_interviewer = ai_interviewers.get(interview_id)"
\* and the start of generate_report_thread, which runs up to its finally block
reg_complete(i, t) ==
    /\ reg.threads[t].pc = "none"
    /\ \A u \in RegThreads : reg.threads[u].pc = "none" => t <= u
    /\ reg' = [reg EXCEPT !.threads[t] =
                   [pc |-> "finally", id |-> i, session |-> reg.registry[i]]]

\* generate_report_thread, finally: "if interview_id in ai_interviewers"
reg_test(t) ==
    /\ reg.threads[t].pc = "finally"
    /\ reg' = [reg EXCEPT !.threads[t] =
                   IF reg.registry[reg.threads[t].id] # NoSession
                   THEN [@ EXCEPT !.pc = "del"] ELSE NoThread]

\* generate_report_thread, finally: "del ai_interviewers[interview_id]", a
\* KeyError when the key is gone
reg_del(t) ==
    /\ reg.threads[t].pc = "del"
    /\ reg' = [reg EXCEPT !.threads[t] = NoThread,
                          !.registry[reg.threads[t].id] = NoSession,
                          !.raised = @ \/ reg.registry[reg.threads[t].id] = NoSession]

NextRegistry ==
    \/ \E i \in RegIds, voice \in BOOLEAN : reg_start(i, voice) /\ UNCHANGED regFrame
    \/ \E i \in RegIds, t \in RegThreads : reg_complete(i, t) /\ UNCHANGED regFrame
    \/ \E t \in RegThreads : reg_test(t) /\ UNCHANGED regFrame
    \/ \E t \in RegThreads : reg_del(t) /\ UNCHANGED regFrame

----------------------------------------------------------------------------
InitAll == InitOrch /\ InitVoice /\ InitBuf /\ InitListen /\ InitScores /\ InitValidator /\ InitEmotion /\ InitSmoother /\ InitPosture /\ InitCapability /\ InitPersist /\ InitRegistry

NextOrch ==
    \/ \E i \in Ids, loadOk \in BOOLEAN : ai_interview_start(i, loadOk) /\ UNCHANGED <<voiceVars, bufVars, unitVars>>
    \/ \E t \in Slots, n \in 0..MaxQuestions, ok \in BOOLEAN : qgen_generate(t, n, ok) /\ UNCHANGED <<voiceVars, bufVars, unitVars>>
    \/ \E t \in Slots, ok \in BOOLEAN : qgen_persist(t, ok) /\ UNCHANGED <<voiceVars, bufVars, unitVars>>
    \/ \E i \in Ids, q \in 1..MaxQuestions, a \in {"", "ans"} :
           ai_interview_answer(i, q, a) /\ UNCHANGED <<voiceVars, bufVars, unitVars>>
    \/ \E i \in Ids : ai_interview_complete(i) /\ UNCHANGED <<voiceVars, bufVars, unitVars>>
    \/ \E t \in Slots, ok \in BOOLEAN : report_generate(t, ok) /\ UNCHANGED <<voiceVars, bufVars, unitVars>>
    \/ \E t \in Slots : report_status(t) /\ UNCHANGED <<voiceVars, bufVars, unitVars>>
    \/ \E t \in Slots : report_cleanup(t) /\ UNCHANGED <<voiceVars, bufVars, unitVars>>
    \/ \E i \in Ids, force \in BOOLEAN, ok \in BOOLEAN : complete_interview(i, force, ok) /\ UNCHANGED <<voiceVars, bufVars, unitVars>>
    \/ \E i \in Ids : start_voice_interview_view(i) /\ UNCHANGED <<voiceVars, bufVars, unitVars>>
    \/ \E i \in Ids : stop_voice_interview_view(i) /\ UNCHANGED <<voiceVars, bufVars, unitVars>>

\* The orchestration: requests arrive in any order, threads run at any speed.
SpecOrch == InitAll /\ [][NextOrch]_vars

\* Every started thread keeps running (the scheduler starves no thread); requests
\* are up to the users and may never come.
ThreadStep ==
    /\ \/ \E t \in Slots, n \in 0..MaxQuestions, ok \in BOOLEAN : qgen_generate(t, n, ok)
       \/ \E t \in Slots, ok \in BOOLEAN : qgen_persist(t, ok)
       \/ \E t \in Slots, ok \in BOOLEAN : report_generate(t, ok)
       \/ \E t \in Slots : report_status(t)
       \/ \E t \in Slots : report_cleanup(t)
    /\ UNCHANGED <<voiceVars, bufVars, unitVars>>

FairSpecOrch == InitAll /\ [][NextOrch]_vars /\ WF_vars(ThreadStep)

SpecListen == InitAll /\ [][NextListen]_vars
\* the call keeps running: listen returns within its timeout, speak returns
FairSpecListen == InitAll /\ [][NextListen]_vars /\ WF_vars(LwrStep)

\* The orchestration of an interview together with the snapshots analysed for
\* it, one request at a time.
NextOwner ==
    \/ \E i \in Ids : ai_interview_start(i, TRUE) /\ UNCHANGED <<voiceVars, bufVars, unitVars>>
    \/ \E t \in Slots, n \in 0..1 : qgen_generate(t, n, TRUE) /\ UNCHANGED <<voiceVars, bufVars, unitVars>>
    \/ \E t \in Slots : qgen_persist(t, TRUE) /\ UNCHANGED <<voiceVars, bufVars, unitVars>>
    \/ \E i \in Ids, q \in 1..MaxQuestions :
           ai_interview_answer(i, q, "ans") /\ UNCHANGED <<voiceVars, bufVars, unitVars>>
    \/ \E i \in Ids : ai_interview_complete(i) /\ UNCHANGED <<voiceVars, bufVars, unitVars>>
    \/ \E t \in Slots : report_generate(t, TRUE) /\ UNCHANGED <<voiceVars, bufVars, unitVars>>
    \/ \E t \in Slots : report_status(t) /\ UNCHANGED <<voiceVars, bufVars, unitVars>>
    \/ \E t \in Slots : report_cleanup(t) /\ UNCHANGED <<voiceVars, bufVars, unitVars>>
    \/ \E i \in Ids : AllIdle /\ snap_begin(1, i, "Happy", "None")
                              /\ UNCHANGED <<orchVars, voiceVars, unitVars>>
    \/ SnapStep(1) /\ UNCHANGED <<orchVars, voiceVars, unitVars>>

SpecOwner == InitAll /\ [][NextOwner]_vars

SpecScores == InitAll /\ [][NextScores]_vars

SpecValidator == InitAll /\ [][NextValidator]_vars

SpecEmotion == InitAll /\ [][NextEmotion]_vars

SpecSmooth == InitAll /\ [][NextSmooth]_vars

SpecPosture == InitAll /\ [][NextPosture]_vars

SpecCapability == InitAll /\ [][NextCapability]_vars

SpecPersist == InitAll /\ [][NextPersist]_vars

SpecRegistry == InitAll /\ [][NextRegistry]_vars

\* The frames of one interview, analysed one after the other with only the
\* emotion analysis enabled; every frame shows a face
NextFrames ==
    \/ \E e \in {"Happy", "Sad"} :
           AllIdle /\ snap_begin(1, 1, e, "None") /\ UNCHANGED <<orchVars, voiceVars, unitVars>>
    \/ SnapStep(1) /\ UNCHANGED <<orchVars, voiceVars, unitVars>>

SpecFrames == InitAll /\ [][NextFrames]_vars

SpecLongStreams == InitAll /\ [][NextLongStreams]_vars

SpecInterviews == InitAll /\ [][NextInterviews]_vars

SpecBuf == InitAll /\ [][NextBuf]_vars

SpecSeq == InitAll /\ [][NextSeq]_vars

\* One AIInterviewer driven through its public methods in any order
SpecVoice == InitAll /\ [][NextVoice]_vars

\* Every started loop thread keeps being scheduled
FairSpecVoice ==
    InitAll /\ [][NextVoice]_vars
            /\ \A t \in LoopSlots : WF_vars(LoopStep(t) /\ UNCHANGED <<orchVars, bufVars, unitVars>>)

\* The same for the interview that is never stopped
FairSpecUnstopped ==
    InitAll /\ [][NextUnstopped]_vars
            /\ \A t \in LoopSlots : WF_vars(LoopStep(t) /\ UNCHANGED <<orchVars, bufVars, unitVars>>)

----------------------------------------------------------------------------
(***************************************************************************)
(* Claims about the orchestration                                          *)
(***************************************************************************)
Registered(i) == ai_interviewers[i] # NoSession
\* the questions of interview i whose answer is empty, counted from the rows
EmptyAnswers(i) == Cardinality({q \in 1..Len(questions[i]) : questions[i][q] = ""})
PendingReports(i) == {t \in LiveReports(i) : tasks[t].pc \in {"report", "status"}}

\* C1: a start request for an interview id that already has a registered session
\* is answered with an error, leaves the registered session in place and starts
\* no further question thread.
C1_DuplicateStartRejected ==
    [][\A i \in Ids, loadOk \in BOOLEAN :
          (Registered(i) /\ ai_interview_start(i, loadOk))
              => /\ resp'.ok = FALSE
                 /\ ai_interviewers'[i] = ai_interviewers[i]
                 /\ tasks' = tasks]_vars

\* C2: in every reachable state an interview id has at most one live background
\* thread (question generation or report generation).
C2_AtMostOneLiveTask == \A i \in Ids : Cardinality(LiveTasks(i)) <= 1

C4_DuplicateCompletionRejected ==
    [][\A i \in Ids :
          ((status[i] = "completed" \/ LiveReports(i) # {}) /\ ai_interview_complete(i))
              => (resp'.ok = FALSE /\ tasks' = tasks)]_vars

\* C5: once the interview has completed or one of its background threads has
\* failed, a registered session is eventually deregistered.
C5_EventuallyDeregistered ==
    \A i \in Ids :
        (Registered(i) /\ (taskFailed[i] \/ status[i] = "completed")) ~> ~Registered(i)

\* C8: the status only moves Scheduled -> InProgress -> Completed, with
\* Cancelled reachable only from InProgress.
C8_StatusTransitions ==
    [][\A i \in Ids :
          status'[i] # status[i]
              => <<status[i], status'[i]>> \in {<<"scheduled", "in_progress">>,
                                                <<"in_progress", "completed">>,
                                                <<"in_progress", "cancelled">>}]_vars

----------------------------------------------------------------------------
(***************************************************************************)
(* Claims about the voice interview                                        *)
(***************************************************************************)
IsPrefix(a, b) == Len(a) <= Len(b) /\ \A k \in 1..Len(a) : a[k] = b[k]
SecondLoopStarted == \E t \in LoopSlots : t # 1 /\ loops[t].pc # "none"

C10_QuestionsInIndexOrder ==
    ~SecondLoopStarted =>
        /\ \A k \in 1..Len(interview_history) :
               k <= Len(self_questions) /\ interview_history[k].question = self_questions[k]
        /\ completeFired >= 1 => Len(interview_history) = Len(self_questions)

----------------------------------------------------------------------------
(***************************************************************************)
(* Claims about the behavioural data                                       *)
(***************************************************************************)
Min(a, b) == IF a <= b THEN a ELSE b
Occurrences(seq, v) == Cardinality({k \in 1..Len(seq) : seq[k] = v})
\* the last n entries of seq, oldest first
LastN(seq, n) == [k \in 1..Min(n, Len(seq)) |-> seq[Len(seq) - Min(n, Len(seq)) + k]]

\* C6: when all concurrent requests have returned, every timestamp appended for
\* an interview is in its list exactly once, unless it is older than the last
\* BufferLimit ones (then it is gone), and the emotions list holds as many entries
\* as were appended, up to BufferLimit.
C6_NoObservationLostOrDuplicated ==
    AllIdle =>
        \A i \in BufIds :
            LET ts == appended[i]["timestamps"]
                em == appended[i]["emotions"]
            IN /\ \A k \in 1..Len(ts) :
                      Occurrences(CurrentList(i, "timestamps"), ts[k])
                          = IF k > Len(ts) - BufferLimit THEN 1 ELSE 0
               /\ Len(CurrentList(i, "emotions")) = Min(Len(em), BufferLimit)

\* C7: after any sequence of sequential requests, once the request has returned,
\* each list of an interview holds at most BufferLimit entries, and they are the
\* last BufferLimit values appended to it, oldest first.
C7_KeepsLastEntriesInOrder ==
    AllIdle =>
        \A i \in BufIds, key \in Keys :
            /\ Len(CurrentList(i, key)) <= BufferLimit
            /\ CurrentList(i, key) = LastN(appended[i][key], BufferLimit)

\* C7 witness: more values than the limit were appended to the timestamps and to
\* the emotions of an interview, so entries have been evicted more than once.
C7_Witness ==
    /\ AllIdle
    /\ \E i \in BufIds : /\ Len(appended[i]["timestamps"]) > BufferLimit + 1
                         /\ Len(appended[i]["emotions"]) > BufferLimit
                         /\ Len(appended[i]["postures"]) < Len(appended[i]["emotions"])

----------------------------------------------------------------------------
(***************************************************************************)
(* Claims about the listener                                               *)
(***************************************************************************)
FirstTruthy(h) == CHOOSE k \in 1..Len(h) : Truthy(h[k]) /\ \A j \in 1..(k - 1) : ~Truthy(h[j])
Heard == \E k \in 1..Len(lwr.heard) : Truthy(lwr.heard[k])

\* C11: listen_with_retry(max_retries = n) calls listen at most n times; when it
\* has returned, it returned the first non-empty transcription, having listened
\* no further, or, all n attempts having yielded nothing, the sentinel answer;
\* and every call returns.
C11_BoundedRetriesThenSentinel ==
    /\ [](/\ Len(lwr.heard) <= lwr.max_retries
          /\ lwr.pc = "done" =>
                IF Heard
                THEN /\ lwr.ret = lwr.heard[FirstTruthy(lwr.heard)]
                     /\ FirstTruthy(lwr.heard) = Len(lwr.heard)
                ELSE /\ lwr.ret = NoResponse
                     /\ Len(lwr.heard) = lwr.max_retries)
    /\ (lwr.pc # "idle" ~> lwr.pc = "done")

\* C11 witness: a call that heard nothing twice and then returned what it heard
\* on its third and last attempt.
C11_Witness ==
    /\ lwr.pc = "done" /\ lwr.max_retries = 3 /\ Len(lwr.heard) = 3
    /\ lwr.heard[1] = NoText /\ lwr.heard[2] = "" /\ lwr.ret = "yes"

----------------------------------------------------------------------------
(***************************************************************************)
(* Claims about the ownership of the behavioural data                      *)
(***************************************************************************)
HasBuffer(i) == interview_behavioral_data[i] # 0

\* C12: in every reachable state an entry of interview_behavioral_data exists
\* only for an interview whose session is registered in ai_interviewers.
C12_BufferOnlyWhileRegistered == \A i \in Ids : HasBuffer(i) => Registered(i)

----------------------------------------------------------------------------
(***************************************************************************)
(* Claims about the behavioural scores                                     *)
(***************************************************************************)
\* C14: whenever the emotion stream or the posture stream is empty, the five
\* scores are confidence 50, engagement 50, communication 50, body language 50
\* and eye contact 70.
C14_DefaultScoresOnEmptyStream ==
    (sc.called /\ (sc.emotion_data = <<>> \/ sc.posture_data = <<>>))
        => sc.scores = [confidence |-> 50, engagement |-> 50, communication |-> 50,
                        body_language |-> 50, eye_contact |-> 70]

\* C14 witness: scores computed for a stream of sad, slouched emotions without
\* any posture, where the weighted sums would give other values.
C14_Witness ==
    /\ sc.called /\ sc.emotion_data = <<"Sad", "Sad">> /\ sc.posture_data = <<>>
    /\ sc.scores.eye_contact = 70

\* Counter(emotion_data), Counter(posture_data): the distributions of an interview
EmotionCounts(i) == [e \in EmotionLabels \cup {"No Face"}
                         |-> CountIn(CurrentList(i, "emotions"), {e})]
PostureCounts(i) == [p \in PostureLabels \cup {"No Person"}
                         |-> CountIn(CurrentList(i, "postures"), {p})]
ScoresOf(i) == BehavioralScores(CurrentList(i, "emotions"), CurrentList(i, "postures"))
\* a request is being served for a frame without a face / without a person
NoFaceFrame == snap[1].pc # "idle" /\ snap[1].emotion = "No Face"
NoPersonFrame == snap[1].pc # "idle" /\ snap[1].posture = "No Person"

\* C13 as stated: a frame without a face or without a person changes no
\* distribution and none of the five scores.
C13_SentinelFrameChangesNothing ==
    [][\A i \in BufIds :
          (NoFaceFrame \/ NoPersonFrame)
              => /\ EmotionCounts(i)' = EmotionCounts(i)
                 /\ PostureCounts(i)' = PostureCounts(i)
                 /\ ScoresOf(i)' = ScoresOf(i)]_vars

\* C13 as amended: the emotions never contain 'No Face' and the postures never
\* 'No Person'; a frame without a face leaves the emotion distribution as it
\* was, a frame without a person the posture distribution, and a frame with
\* neither a face nor a person leaves the five scores as they were.
C13_SentinelsExcluded ==
    /\ [](\A i \in BufIds : /\ EmotionCounts(i)["No Face"] = 0
                            /\ PostureCounts(i)["No Person"] = 0)
    /\ [][\A i \in BufIds :
            /\ NoFaceFrame => EmotionCounts(i)' = EmotionCounts(i)
            /\ NoPersonFrame => PostureCounts(i)' = PostureCounts(i)
            /\ (NoFaceFrame /\ NoPersonFrame) => ScoresOf(i)' = ScoresOf(i)]_vars

\* C13 witness: a frame with neither a face nor a person has been through the
\* appends for an interview that has emotions and postures recorded.
C13_Witness ==
    /\ snap[1].pc = "chk" /\ snap[1].emotion = "No Face" /\ snap[1].posture = "No Person"
    /\ CurrentList(snap[1].id, "emotions") # <<>>
    /\ CurrentList(snap[1].id, "postures") # <<>>
    /\ Len(CurrentList(snap[1].id, "timestamps")) > Len(CurrentList(snap[1].id, "emotions"))

----------------------------------------------------------------------------
(***************************************************************************)
(* Claims about the score validator                                        *)
(***************************************************************************)
\* x = num / den as fractions
IsFraction(x, num, den) == x.num * den = num * x.den
CountOrOne(scores) == IF scores = <<>> THEN 1 ELSE Len(scores)

\* C15: the two averages the validator computes are the arithmetic means of the
\* scores it extracted for the category and the final score is
\* nonTechAvg*10*0.3 + techAvg*10*0.7; for the scores 6, 8, 5, 7, 9 of two
\* non-technical and three technical questions in a narrative that states no
\* average it computes 7.0, 7.0 and 70.0 and the narrative returned shows the
\* final score 70.0.
C15_AveragesAndFinalScore ==
    val.called =>
        LET n == CountOrOne(val.non_tech_scores)
            m == CountOrOne(val.tech_scores)
            sn == SumSeq(val.non_tech_scores)
            sm == SumSeq(val.tech_scores)
        IN /\ IsFraction(val.correct_non_tech_avg, sn, n)
           /\ IsFraction(val.correct_tech_avg, sm, m)
           /\ IsFraction(val.correct_final_score, 3 * sn * m + 7 * sm * n, n * m)
           /\ (/\ val.all_scores = <<6, 8, 5, 7, 9>> /\ val.gt = [nt |-> 2, t |-> 3]
               /\ val.st.nta = Absent /\ val.st.ta = Absent /\ val.st.fs = Absent)
                 => /\ val.non_tech_scores = <<6, 8>> /\ val.tech_scores = <<5, 7, 9>>
                    /\ OneDecimal(val.correct_non_tech_avg) = 70
                    /\ OneDecimal(val.correct_tech_avg) = 70
                    /\ IsFraction(val.correct_final_score, 70, 1)
                    /\ val.finals = {700}

\* C15 witness: the validator has run on the narrative of the example.
C15_Witness ==
    /\ val.called /\ val.all_scores = <<6, 8, 5, 7, 9>> /\ val.gt = [nt |-> 2, t |-> 3]
    /\ val.st.fs = Absent /\ val.needs_fixing

\* C16: the final score the validator computes lies in [0, 100] and so does
\* every final score the narrative it returns shows.
C16_FinalScoreWithinRange ==
    val.called =>
        /\ 0 <= val.correct_final_score.num
        /\ val.correct_final_score.num <= 100 * val.correct_final_score.den
        /\ val.needs_fixing => \A f \in val.finals : 0 <= f /\ f <= 1000

----------------------------------------------------------------------------
(***************************************************************************)
(* Claims about the emotion classifier                                     *)
(***************************************************************************)
HoldsMaximum(e) == \A other \in EmotionLabels : emo.scores[other] <= emo.scores[e]
StrongEnough == \E e \in EmotionLabels : emo.scores[e] >= 3
PositionOf(e) == CHOOSE k \in 1..7 :
    <<"Happy", "Neutral", "Sad", "Surprised", "Confused", "Disgusted", "Angry">>[k] = e

\* C17: whenever every accumulated score is below 3, the classifier returns
\* Neutral, whichever label holds the maximum.
C17_NeutralBelowThree == (emo.called /\ ~StrongEnough) => emo.emotion = "Neutral"

\* C17 witness: Angry alone holds the maximum, 2, Neutral has no point, and the
\* classifier has answered Neutral.
C17_Witness ==
    /\ emo.called /\ emo.scores["Angry"] = 2 /\ emo.scores["Neutral"] = 0
    /\ \A e \in EmotionLabels \ {"Angry"} : emo.scores[e] < 2
    /\ emo.emotion = "Neutral"

\* C18: for every feature vector without a detected mouth the Happy score the
\* classifier returns is 0.
C18_NoHappyWithoutMouth == (emo.called /\ ~emo.features.mouth_detected) => emo.scores["Happy"] = 0

\* C18 witness: no mouth detected, with mouth ratios that satisfy every mouth
\* rule for Happy.
C18_Witness ==
    /\ emo.called /\ ~emo.features.mouth_detected
    /\ emo.features.mouth_size_ratio = 20 /\ emo.features.mouth_width_ratio = 400
    /\ emo.features.mouth_vertical_pos = 600 /\ emo.features.eye_height_ratio = 110

\* C19: when the maximum score is at least 3, the classifier returns a label
\* that holds the maximum, and no label earlier in the order Happy, Neutral, Sad,
\* Surprised, Confused, Disgusted, Angry holds it.
C19_MaximumByPriority ==
    (emo.called /\ StrongEnough)
        => /\ HoldsMaximum(emo.emotion)
           /\ \A e \in EmotionLabels :
                  HoldsMaximum(e) => PositionOf(emo.emotion) <= PositionOf(e)

\* C19 witness: Sad and Angry share the maximum, at least 3, and Sad was returned.
C19_Witness ==
    /\ emo.called /\ emo.scores["Sad"] >= 3 /\ emo.scores["Angry"] = emo.scores["Sad"]
    /\ HoldsMaximum("Sad") /\ emo.emotion = "Sad"

----------------------------------------------------------------------------
(***************************************************************************)
(* Claims about the temporal smoother                                      *)
(***************************************************************************)
\* C20: on a fresh smoother each of the first two calls of smooth_emotion
\* returns the label it was given.
C20_FirstTwoCallsUnsmoothed == smo.calls \in {1, 2} => smo.smoothed = smo.emotion

\* C20 witness: the second call was given a label other than the first call's,
\* and returned it.
C20_Witness ==
    /\ smo.calls = 2 /\ smo.emotion_history = <<"Angry", "Happy">>
    /\ smo.emotion = "Happy" /\ smo.smoothed = "Happy"

----------------------------------------------------------------------------
(***************************************************************************)
(* Claims about the posture analyzer                                       *)
(***************************************************************************)
\* C21: whenever nose.y minus the average shoulder y is above 0.08, analyze
\* returns Slouched, whatever the nose offset and the shoulder tilt are.
C21_SlouchedTakesPriority ==
    (/\ pos.called /\ pos.landmarks.readable
     /\ 2 * pos.landmarks.nose_y
            - (pos.landmarks.left_shoulder_y + pos.landmarks.right_shoulder_y) > 160)
        => pos.posture = "Slouched"

\* C21 witness: the nose is 0.10 below the shoulders' average, far to one side
\* of their centre, the shoulders are tilted by 0.10, and the answer is Slouched.
C21_Witness ==
    /\ pos.called /\ pos.landmarks.readable /\ pos.posture = "Slouched"
    /\ pos.landmarks.nose_y = 650 /\ pos.landmarks.left_shoulder_y = 600
    /\ pos.landmarks.right_shoulder_y = 500
    /\ pos.landmarks.nose_x = 650 /\ pos.landmarks.left_shoulder_x = 600
    /\ pos.landmarks.right_shoulder_x = 400

----------------------------------------------------------------------------
(***************************************************************************)
(* Claims about the capability's failures                                  *)
(***************************************************************************)
\* C22: when the capability is unavailable, raises, or answers with text that is
\* not valid JSON, generate_questions returns a list of questions and raises
\* nothing; when it raises during report generation, generate_report returns the
\* mock report.
C22_CapabilityFailureContained ==
    /\ (/\ cap.called /\ cap.op = "generate_questions"
        /\ \/ cap.mode # "responds"
           \/ ~(cap.text.inner \in {"[q1, q2]", "{}"}))
           => cap.result.kind = "list" /\ cap.result.n > 0
    /\ (cap.called /\ cap.op = "generate_report" /\ cap.mode = "raises")
           => cap.result.kind = "mock report"

----------------------------------------------------------------------------
(***************************************************************************)
(* Claims about the persisted scores                                       *)
(***************************************************************************)
\* C23: the report task persists 50, 50, 50 when the narrative states none of
\* the three values; whenever it states any of them, each stated value is
\* persisted (an average times 10, the final score's whole part), also when it
\* is low or zero.
C23_FiftyOnlyWhenNothingStated ==
    rpt.called =>
        IF rpt.st.nta = Absent /\ rpt.st.ta = Absent /\ rpt.st.fs = Absent
        THEN rpt.result = [technical_score |-> 50, non_technical_score |-> 50,
                           overall_score |-> 50]
        ELSE /\ rpt.st.nta # Absent => rpt.result.non_technical_score = rpt.st.nta
             /\ rpt.st.ta # Absent => rpt.result.technical_score = rpt.st.ta
             /\ rpt.st.fs # Absent => rpt.result.overall_score = rpt.st.fs \div 10

----------------------------------------------------------------------------
(***************************************************************************)
(* Claims about completion and question generation                         *)
(***************************************************************************)
\* ai_interview_complete accepts a request of interview i in this step
AcceptsCompletion(i) ==
    /\ nAccepted'[i] = nAccepted[i] + 1
    /\ \E t \in Slots : tasks[t].kind = "none" /\ tasks'[t].kind = "report"

\* C24: no completion request is accepted before a question of the interview
\* exists or while its question thread is still running, and no question is
\* persisted for an interview after a completion request was accepted.
C24_CompletionAfterGeneration ==
    [][\A i \in Ids :
          /\ AcceptsCompletion(i)
                 => /\ Len(questions[i]) > 0
                    /\ \A t \in LiveTasks(i) : tasks[t].kind # "qgen"
          /\ Len(questions'[i]) > Len(questions[i]) => nAccepted[i] = 0]_vars

----------------------------------------------------------------------------
(***************************************************************************)
(* Claims about the registry                                               *)
(***************************************************************************)
\* C25: a report thread's deregistration removes only the session the thread
\* was started with, never one registered by a later start, and it never fails
\* because another thread removed the entry first.
C25_DeregistersOwnSession ==
    [][/\ \A t \in RegThreads :
             (/\ reg.threads[t].pc = "del" /\ reg'.threads[t].pc = "none"
              /\ reg.registry[reg.threads[t].id] # NoSession)
                 => reg.registry[reg.threads[t].id] = reg.threads[t].session
       /\ ~reg'.raised]_vars

----------------------------------------------------------------------------
(***************************************************************************)
(* Claims about pause and resume                                           *)
(***************************************************************************)
\* C26: while interview_paused is set, no voice loop asks a question and no
\* voice loop moves current_question_index.
C26_PausedLoopStandsStill ==
    [][(interview_paused /\ interview_paused')
          => \A t \in LoopSlots :
                 /\ ~(loops[t].pc = "ask" /\ loops'[t].pc = "listen")
                 /\ ~(loops[t].pc = "inc" /\ loops'[t].pc = "while")]_vars


\* C27: pause_interview returns True exactly when the interview is active and
\* not paused, resume_interview exactly when it is active and paused,
\* stop_interview exactly when it is active; a call that returns False leaves
\* is_interview_active, interview_paused and stop_requested as they were.
C27_ControlsOnlyWhenValid ==
    [][/\ pause_interview => ret' = (is_interview_active /\ ~interview_paused)
       /\ resume_interview => ret' = (is_interview_active /\ interview_paused)
       /\ stop_interview => ret' = is_interview_active
       /\ ((pause_interview \/ resume_interview \/ stop_interview) /\ ~ret')
              => UNCHANGED <<is_interview_active, interview_paused, stop_requested>>]_vars

\* C27 witness: a stopped interview on which a further call has returned False:
\* the flags are as stop_interview left them.
C27_Witness ==
    /\ ~ret /\ stop_requested /\ ~is_interview_active /\ ~interview_paused
    /\ LiveLoops = {} /\ current_question_index < Len(self_questions)

----------------------------------------------------------------------------
(***************************************************************************)
(* Claims about what the buffer holds                                      *)
(***************************************************************************)
\* what smooth_emotion returns, call after call, on a new detector fed raws
SmoothedStream(raws) ==
    [k \in 1..Len(raws) |->
        Smoothed(SubSeq(raws, IF k > 5 THEN k - 4 ELSE 1, k), raws[k])]

\* C28: the emotions appended for an interview are the smoother's outputs over
\* the raw labels of its frames, not the raw labels themselves.
C28_BufferHoldsSmoothedEmotions ==
    \A i \in BufIds :
        appended[i]["emotions"] = SmoothedStream(appended[i]["emotions"])


----------------------------------------------------------------------------
(***************************************************************************)
(* Claims about the alignment of the buffer's sequences                    *)
(***************************************************************************)
\* C29: between requests the emotions, the postures and the timestamps of an
\* interview have the same length, so that position k of each is the same frame;
\* this includes frames without a face or without a person, and trimmed lists.
C29_SequencesStayAligned ==
    AllIdle =>
        \A i \in BufIds :
            /\ Len(CurrentList(i, "emotions")) = Len(CurrentList(i, "timestamps"))
            /\ Len(CurrentList(i, "postures")) = Len(CurrentList(i, "timestamps"))


----------------------------------------------------------------------------
(***************************************************************************)
(* Claims about the threshold of the smoother                              *)
(***************************************************************************)
\* the vote of e in tenths: 10, 8, 6, 4, 2 for the newest to the oldest entry
TenthsOf(history, e) ==
    LET w(k) == IF k <= Len(history) /\ history[Len(history) + 1 - k] = e
                THEN 12 - 2 * k ELSE 0
    IN w(1) + w(2) + w(3) + w(4) + w(5)
\* the largest vote of the history
TopTenths(history) ==
    CHOOSE m \in 0..30 : /\ \E e \in EmotionLabels : TenthsOf(history, e) = m
                         /\ \A e \in EmotionLabels : TenthsOf(history, e) <= m
\* the second newest entry of the history
CurrentOf(history) == history[Len(history) - 1]
\* the largest vote is above 1.3 times the vote of current, or above 0 when
\* current is Neutral
TopExceeds(history) ==
    IF CurrentOf(history) # "Neutral"
    THEN 10 * TopTenths(history) > 13 * TenthsOf(history, CurrentOf(history))
    ELSE TopTenths(history) > 0

\* C30: with three or more labels in the history, smooth_emotion returns a
\* label with the largest weighted vote when that vote is strictly above 1.3
\* times the vote of current (above 0 when current is Neutral), and returns
\* current otherwise.
C30_MaxVoteOnlyAboveThreshold ==
    (smo.calls > 0 /\ Len(smo.emotion_history) >= 3) =>
        IF TopExceeds(smo.emotion_history)
        THEN TenthsOf(smo.emotion_history, smo.smoothed) = TopTenths(smo.emotion_history)
        ELSE smo.smoothed = CurrentOf(smo.emotion_history)

\* C30 witness: a call with a full history returned current although another
\* label holds the largest vote, its lead being within the factor 1.3.
C30_Witness ==
    /\ smo.calls > 0 /\ Len(smo.emotion_history) = 5
    /\ CurrentOf(smo.emotion_history) # "Neutral"
    /\ TopTenths(smo.emotion_history)
           > TenthsOf(smo.emotion_history, CurrentOf(smo.emotion_history))
    /\ ~TopExceeds(smo.emotion_history)
    /\ smo.smoothed = CurrentOf(smo.emotion_history)


----------------------------------------------------------------------------
(***************************************************************************)
(* Claims about the label the smoother holds                               *)
(***************************************************************************)
\* C31: whenever a call of smooth_emotion holds its label (three or more labels
\* in the history and the largest vote not above the threshold), the label it
\* returns is the label the previous call returned.
C31_HeldLabelIsPreviousEmission ==
    [][(/\ smo'.calls = smo.calls + 1
        /\ Len(smo'.emotion_history) >= 3
        /\ ~TopExceeds(smo'.emotion_history))
           => smo'.smoothed = smo.smoothed]_vars


----------------------------------------------------------------------------
(***************************************************************************)
(* Claims about the hysteresis of the smoother                             *)
(***************************************************************************)
\* the n-th newest entry of the history (1 is the newest)
Newest(history, n) == history[Len(history) + 1 - n]
\* the call just made completed the frames a, a, b, a with b different from a
TransientEnded(history) ==
    /\ Len(history) >= 4
    /\ Newest(history, 1) = Newest(history, 3)
    /\ Newest(history, 4) = Newest(history, 3)
    /\ Newest(history, 2) # Newest(history, 1)
\* the two newest frames carry the same label, after a frame of another label
Sustained(history) ==
    /\ Len(history) >= 3
    /\ Newest(history, 1) = Newest(history, 2)
    /\ Newest(history, 3) # Newest(history, 1)

\* C32: when the frames A, A, B, A have been passed (B different from A), the
\* label returned for the frame B and the label returned for the frame A after
\* it are both A; and once a different label has been passed on two
\* consecutive frames, the label returned is that label.
C32_TransientHeldSustainedFollowed ==
    /\ [][(smo'.calls = smo.calls + 1 /\ TransientEnded(smo'.emotion_history))
             => /\ smo.smoothed = smo'.emotion
                /\ smo'.smoothed = smo'.emotion]_vars
    /\ []((smo.calls > 0 /\ Sustained(smo.emotion_history))
             => smo.smoothed = smo.emotion)


\* the frame b of the frames a, a, b also occurs among the frames the history
\* held before the two a's
SeenBefore(history) ==
    \E n \in 4..Len(history) : Newest(history, n) = Newest(history, 1)

\* C32 as amended: the frames A, A, B, A leave the returned label at A for the
\* frame B and for the frame A after it when A is not Neutral, or when B is not
\* among the frames the history held before the two A's; and once a different
\* label has been passed on two consecutive frames, the label returned is
\* that label.
C32_TransientHeldUnlessNeutral ==
    /\ [][(/\ smo'.calls = smo.calls + 1
           /\ TransientEnded(smo'.emotion_history)
           /\ (smo'.emotion # "Neutral" \/ ~SeenBefore(smo.emotion_history)))
             => /\ smo.smoothed = smo'.emotion
                /\ smo'.smoothed = smo'.emotion]_vars
    /\ []((smo.calls > 0 /\ Sustained(smo.emotion_history))
             => smo.smoothed = smo.emotion)

\* C32 witness: the frames B, A, A, B, A have been passed with A not Neutral,
\* and the call for the last frame returned A.
C32_Witness ==
    /\ smo.calls > 0 /\ Len(smo.emotion_history) = 5
    /\ TransientEnded(smo.emotion_history)
    /\ Newest(smo.emotion_history, 5) = Newest(smo.emotion_history, 2)
    /\ smo.emotion # "Neutral"
    /\ smo.smoothed = smo.emotion


----------------------------------------------------------------------------
(***************************************************************************)
(* Claims about the narrative the validator returns                        *)
(***************************************************************************)
\* the narrative stated both averages and the final score
AllStated(st) == st.nta # Absent /\ st.ta # Absent /\ st.fs # Absent

\* C33: after the repair of a narrative that stated its averages and its final
\* score, the places stating the Non-Technical Average show the computed
\* non-technical average, those stating the Technical Average the computed
\* technical average, and the Final Score the computed final score.
C33_RepairedNarrativeShowsComputedValues ==
    (val.called /\ val.needs_fixing /\ AllStated(val.st)) =>
        /\ val.non_tech_shown = {OneDecimal(val.correct_non_tech_avg)}
        /\ val.tech_shown = {OneDecimal(val.correct_tech_avg)}
        /\ val.finals = {OneDecimal(val.correct_final_score)}


\* a stated value, a value that is not stated counting as 0
StatedOrZero(x) == IF x = Absent THEN 0 ELSE x
\* the narrative was rewritten: what it shows differs from what it stated
Rewritten == val.needs_fixing

\* C34: the validator rewrites the narrative exactly when a stated average is
\* absent, or the stated non-technical or technical average differs from the
\* computed one by more than 0.1, or the stated final score differs from the
\* computed one by more than 1.0; a narrative that states all three within
\* these tolerances is returned as it came.
C34_RewrittenExactlyOnDisagreement ==
    val.called =>
        (Rewritten <=>
            \/ val.st.nta = Absent \/ val.st.ta = Absent
            \/ DiffersBy(StatedOrZero(val.st.nta), val.correct_non_tech_avg, 1)
            \/ DiffersBy(StatedOrZero(val.st.ta), val.correct_tech_avg, 1)
            \/ DiffersBy(StatedOrZero(val.st.fs), val.correct_final_score, 10))


----------------------------------------------------------------------------
(***************************************************************************)
(* Claims about the partition of the extracted scores                      *)
(***************************************************************************)
\* the first n entries of q, all of q when it has fewer
FirstOf(q, n) == SubSeq(q, 1, IF n < Len(q) THEN n ELSE Len(q))
\* the entries of q after the first n
RestOf(q, n) == SubSeq(q, (IF n < Len(q) THEN n ELSE Len(q)) + 1, Len(q))

\* C35: of the extracted scores in document order the first k, k being the
\* number of non-technical questions, are averaged as non-technical and all
\* the remaining ones as technical, whatever the number of scores.
C35_FirstKThenTheRest ==
    val.called =>
        /\ val.non_tech_scores = FirstOf(val.all_scores, val.gt.nt)
        /\ val.tech_scores = RestOf(val.all_scores, val.gt.nt)
        /\ val.correct_non_tech_avg = Average(FirstOf(val.all_scores, val.gt.nt))
        /\ val.correct_tech_avg = Average(RestOf(val.all_scores, val.gt.nt))


----------------------------------------------------------------------------
(***************************************************************************)
(* Claims about the order of the posture rules                             *)
(***************************************************************************)
\* the quantities of the rules for the landmarks analysed, in thousandths;
\* NoseVsShoulder2 is twice nose_vs_shoulder
ShoulderTilt == pos.landmarks.left_shoulder_y - pos.landmarks.right_shoulder_y
NoseVsShoulder2 ==
    2 * pos.landmarks.nose_y
        - (pos.landmarks.left_shoulder_y + pos.landmarks.right_shoulder_y)
OffsetAbove(bound) == OffsetNum(pos.landmarks) > bound * OffsetDen(pos.landmarks)
OffsetBelow(bound) == OffsetNum(pos.landmarks) < bound * OffsetDen(pos.landmarks)
SlouchedRule == NoseVsShoulder2 > 160
LeaningRightRule == OffsetAbove(180) \/ ShoulderTilt < -70
LeaningLeftRule == OffsetBelow(-180) \/ ShoulderTilt > 70
AttentiveRule ==
    /\ OffsetBelow(80) /\ OffsetAbove(-80)
    /\ ShoulderTilt < 40 /\ ShoulderTilt > -40
    /\ NoseVsShoulder2 < 40

\* C36: analyze returns the label of the first rule that matches in the order
\* Slouched, Leaning Right, Leaning Left, Attentive, and Neutral when none
\* matches; so landmarks with a nose offset above 0.18 and a shoulder tilt above
\* 0.07 that are not slouched yield Leaning Right, and Attentive is returned
\* only under the three bounds of its rule.
C36_FirstMatchingRule ==
    (pos.called /\ pos.landmarks.readable) =>
        /\ pos.posture = "Slouched" <=> SlouchedRule
        /\ pos.posture = "Leaning Right" <=> (~SlouchedRule /\ LeaningRightRule)
        /\ pos.posture = "Leaning Left"
               <=> (~SlouchedRule /\ ~LeaningRightRule /\ LeaningLeftRule)
        /\ pos.posture = "Attentive"
               <=> (~SlouchedRule /\ ~LeaningRightRule /\ ~LeaningLeftRule /\ AttentiveRule)
        /\ pos.posture = "Neutral"
               <=> (~SlouchedRule /\ ~LeaningRightRule /\ ~LeaningLeftRule /\ ~AttentiveRule)
        /\ (~SlouchedRule /\ OffsetAbove(180) /\ ShoulderTilt > 70)
               => pos.posture = "Leaning Right"

\* C36 witness: the nose is right of the shoulders' centre by 0.75 of their
\* width, the left shoulder lower by 0.10, the nose not below the shoulders,
\* and the answer is Leaning Right.
C36_Witness ==
    /\ pos.called /\ pos.landmarks.readable /\ pos.posture = "Leaning Right"
    /\ ~SlouchedRule /\ OffsetAbove(180) /\ ShoulderTilt > 70


----------------------------------------------------------------------------
(***************************************************************************)
(* Claims about the confidence score                                       *)
(***************************************************************************)
ConfidentEmotions == CountIn(sc.emotion_data, {"Happy", "Neutral"})
UnconfidentEmotions == CountIn(sc.emotion_data, {"Sad", "Confused", "Disgusted"})
ConfidentPostures == CountIn(sc.posture_data, {"Attentive", "Neutral"})
UnconfidentPostures == CountIn(sc.posture_data, {"Slouched"})
\* 50 + (confident - unconfident emotions) / emotions * 30
\*    + (confident - unconfident postures) / postures * 20, as the fraction
\* ConfidenceNum / ConfidenceDen
ConfidenceNum ==
    50 * Len(sc.emotion_data) * Len(sc.posture_data)
    + 30 * (ConfidentEmotions - UnconfidentEmotions) * Len(sc.posture_data)
    + 20 * (ConfidentPostures - UnconfidentPostures) * Len(sc.emotion_data)
ConfidenceDen == Len(sc.emotion_data) * Len(sc.posture_data)

\* C37: for non-empty streams the confidence score is the value of the formula,
\* clamped to [0, 100] and cut to an integer; it is 100 when every observation
\* is confident and 0 when every observation is unconfident.
C37_ConfidenceIsTheFormula ==
    (sc.called /\ sc.emotion_data # <<>> /\ sc.posture_data # <<>>) =>
        /\ sc.scores.confidence = Clamp(IntOf(ConfidenceNum, ConfidenceDen))
        /\ (/\ ConfidentEmotions = Len(sc.emotion_data)
            /\ ConfidentPostures = Len(sc.posture_data)) => sc.scores.confidence = 100
        /\ (/\ UnconfidentEmotions = Len(sc.emotion_data)
            /\ UnconfidentPostures = Len(sc.posture_data)) => sc.scores.confidence = 0


----------------------------------------------------------------------------
(***************************************************************************)
(* Claims about the voice loop that is never stopped                       *)
(***************************************************************************)
DoneLoops == {t \in LoopSlots : loops[t].pc = "done"}
\* the answers the running loop has recorded
RecordedByLiveLoop ==
    IF LiveLoops = {} THEN 0
    ELSE current_question_index + (IF \E t \in LiveLoops : loops[t].pc = "inc" THEN 1 ELSE 0)

----------------------------------------------------------------------------
(***************************************************************************)
(* Claims about the independence of the buffers                            *)
(***************************************************************************)
\* the buffer of interview j: absent, or its three lists
BufferOf(j) ==
    IF interview_behavioral_data[j] = 0 THEN <<>>
    ELSE <<CurrentList(j, "emotions"), CurrentList(j, "postures"),
           CurrentList(j, "timestamps")>>
\* the interview whose buffer the request of thread t is to store in: 0 for a
\* request without interview_id or with no analysis enabled
StoresFor(t) == snap[t].id
\* the step is one of the request of thread t; a request that is not to store
\* anything returns in the step that receives it and leaves snap as it was
StepOf(t) == snap'[t] # snap[t]

\* C39: a step of an analyze_snapshot request leaves the buffer of every
\* interview but its own as it was, and a request without an interview id or
\* with both analyses disabled leaves every buffer as it was.
C39_BuffersIndependent ==
    [][\A j \in BufIds :
          (\A t \in Threads : StepOf(t) => (StoresFor(t) # j /\ StoresFor(t)' # j))
              => BufferOf(j)' = BufferOf(j)]_vars

\* C39 witness: both interviews have a buffer with an entry, and the request
\* for interview 2 is past its appends while one for interview 1 is under way.
C39_Witness ==
    /\ snap[2].pc = "chk" /\ snap[2].id = 2
    /\ snap[1].pc = "append" /\ snap[1].id = 1
    /\ CurrentList(1, "timestamps") # <<>>
    /\ CurrentList(2, "timestamps") # <<>>


----------------------------------------------------------------------------
(***************************************************************************)
(* Claims about the classifier without a detected mouth                    *)
(***************************************************************************)
\* C40: for every feature vector without a detected mouth the classifier
\* returns Neutral, Confused or Angry, and no other label has a score of 3 or
\* more.
C40_WithoutMouthNeutralConfusedAngry ==
    (emo.called /\ ~emo.features.mouth_detected) =>
        /\ emo.emotion \in {"Neutral", "Confused", "Angry"}
        /\ \A e \in EmotionLabels \ {"Neutral", "Confused", "Angry"} : emo.scores[e] < 3


\* C40 witness: no mouth detected, one eye, with the eye height and the mouth
\* size that give Surprised 4 points when a mouth is detected; Surprised has 2
\* points and the answer is Confused.
C40_Witness ==
    /\ emo.called /\ ~emo.features.mouth_detected
    /\ emo.features.eye_height_ratio = 170 /\ emo.features.mouth_size_ratio = 35
    /\ emo.scores["Surprised"] = 2 /\ emo.scores["Confused"] = 3
    /\ emo.emotion = "Confused"

=============================================================================
